---- MODULE Spec2Model ----
(***************************************************************************)
(* A model of lazynwb's tabular-access engine: the ragged column codec,    *)
(* the accessor cache, the worker pool, the multi-file aggregator, the     *)
(* ragged re-fetch and the lazy scan generator.                            *)
(*                                                                         *)
(* Python sequences are 0-based; TLA+ sequences are 1-based.  An offset k  *)
(* of a Python array arr is arr[k + 1] here.  None is the empty tuple and  *)
(* a given optional value x is the one-element tuple <<x>>.                *)
(***************************************************************************)
EXTENDS Integers, Sequences, FiniteSets, TLC

VARIABLES
    \* ---- ragged column codec (tables.py get_indexed_column_data) ----
    data_column,        \* the packed data array of the column
    index_column,       \* the cumulative end-offset index array
    row_subset,         \* table_row_indices: None or <<sequence of rows>>
    codec_pc,           \* "call", "done" or "AssertionError"
    data_indices,       \* the offsets read from the data array
    column_data,        \* the list of per-row sub-arrays returned
    \* ---- accessor cache (file_io.py) ----
    accessor_cache,     \* _accessor_cache: key -> instance id, 0 when absent
    instances,          \* the FileAccessor objects created so far, by id
    thread,             \* each caller's position inside FileAccessor(path)
    n_open,             \* key -> backend handles _open_file has returned
    returned,           \* the (key, instance, epoch) triples handed to callers
    raised,             \* the (key, error) pairs raised to callers
    epoch,              \* clear_cache() calls so far
    open_calls,         \* open() calls started so far
    \* ---- worker pool (utils.py get_threadpool_executor, tables.py get_df) ----
    pool_backend,       \* the sources of the get_df call: source -> "hdf5" | "zarr"
    pool_queue,         \* the executor's work queue (FIFO)
    pool_worker,        \* worker -> the task it runs and how far it is
    pool_done,          \* the futures that have completed
    pool_main,          \* the get_df caller: "submit", "drain" or "done"
    pool_submitted,     \* per-source tasks submitted so far
    pool_drained,       \* per-source futures the drain loop has consumed
    \* ---- backend handles of the cached accessors (file_io.py) ----
    handle,             \* path -> "absent" (not cached), "open" or "closed"
    \* ---- multi-source aggregator (tables.py get_df) ----
    agg_args,           \* the arguments of the get_df call
    agg_pc,             \* "call", "drain", "returned" or "raised"
    agg_future,         \* per source: None while running, else <<outcome>>
    agg_drained,        \* the futures the as_completed loop has consumed
    agg_results,        \* results: the per-source frames appended so far
    agg_warned,         \* the paths logged as lacking the table
    agg_frame,          \* the frame returned
    agg_error,          \* the exception raised
    agg_calls,          \* get_df calls started so far
    \* ---- array column merge (tables.py merge_array_column) ----
    merge_df,           \* df: the frame the column is merged onto
    merge_args,         \* column_name and missing_ok of the call
    merge_pc,           \* "call", "drain", "returned" or "raised"
    merge_future,       \* per source path: None while running, else <<outcome>>
    merge_drained,      \* the futures the as_completed loop has consumed
    merge_column_data,  \* column_data: the per-source frames appended so far
    merge_warned,       \* missing_column_already_warned
    merge_fetched,      \* the (path, row index) pairs the helpers were asked for
    merge_frame,        \* the frame returned
    merge_error,        \* the exception raised
    merge_calls,        \* merge_array_column calls started so far
    \* ---- lazy scan (lazyframe.py scan_nwb.source_generator) ----
    scan_args,          \* files, table_path and the arguments polars passes
    scan_pc,            \* "start", "batches", "done" or "raised"
    scan_filtered_df,   \* filtered_df
    scan_n_rows,        \* n_rows inside the predicate branch
    scan_i,             \* i
    scan_yielded,       \* the frames yielded so far
    scan_error,         \* the exception raised
    \* ---- one table of one open file (tables.py _get_table_data, _get_table_schema) ----
    tbl_args,           \* the file, the search term and the options of the call
    tbl_pc,             \* "call", then "resolved", "data" or "schema"
    tbl_match,          \* the table the search term resolved to, or the error
    tbl_out,            \* what _get_table_data returned or raised
    tbl_schema,         \* what _get_table_schema returned or raised
    \* ---- file structure (utils.py get_nwb_file_structure) ----
    struct_args,        \* the container and the three exclude flags
    struct_pc,          \* "call", "returned" or "raised"
    struct_out,         \* the keys of the dict returned, or the exception
    \* ---- opening and closing around a call (file_handlers.py FileAccessWrapper, auto_file_open) ----
    wrap_args,          \* the entry point, the arguments and the options
    wrap_pc,            \* "call", "opened", "returned" / "raised", then "closed"
    wrap_handles,       \* per argument: the handle behind it, who opened it, whether it is open
    wrap_passed,        \* per argument: what the wrapped function received
    \* ---- choice of executor (tables.py get_df) ----
    exec_args,          \* the number of paths, exclude_array_columns and use_process_pool
    exec_pc,            \* "call", "submit", "drain" or "returned"
    exec_executor,      \* the executor get_df took: "process" or "thread"
    exec_submitted,     \* per task submitted: the executor it went to
    exec_drained,       \* futures the drain loop has consumed
    exec_warned,        \* the warning about use_process_pool was logged
    \* ---- probing the backend formats (file_io.py _open_file, _open_hdf5) ----
    probe_args,         \* what the path is: its name, its protocol, its content, and the config
    probe_pc,           \* "call", "zarr" (HDF5 skipped or failed), "returned" or "raised"
    probe_out,          \* the format of the accessor returned, or the exception
    probe_tried,        \* the formats that were tried
    probe_warned,       \* the remfile fallback warning was logged
    \* ---- reading a property of a TimeSeries (timeseries.py) ----
    ts_args,            \* the property read and what the group of the series holds
    ts_pc,              \* "call", "running", "returned" or "raised"
    ts_stack,           \* the property getters being evaluated, innermost last
    ts_ret,             \* the value the innermost getter that finished returned
    ts_out              \* the value or the exception the read ended with

codecVars == <<data_column, index_column, row_subset, codec_pc, data_indices,
               column_data>>

cacheVars == <<accessor_cache, instances, thread, n_open, returned, raised,
               epoch, open_calls>>

poolVars == <<pool_backend, pool_queue, pool_worker, pool_done, pool_main,
              pool_submitted, pool_drained>>

aggVars == <<agg_args, agg_pc, agg_future, agg_drained, agg_results, agg_warned,
             agg_frame, agg_error, agg_calls>>

mergeVars == <<merge_df, merge_args, merge_pc, merge_future, merge_drained,
               merge_column_data, merge_warned, merge_fetched, merge_frame, merge_error,
               merge_calls>>

scanVars == <<scan_args, scan_pc, scan_filtered_df, scan_n_rows, scan_i, scan_yielded,
              scan_error>>

tblVars == <<tbl_args, tbl_pc, tbl_match, tbl_out, tbl_schema>>

structVars == <<struct_args, struct_pc, struct_out>>

wrapVars == <<wrap_args, wrap_pc, wrap_handles, wrap_passed>>

execVars == <<exec_args, exec_pc, exec_executor, exec_submitted, exec_drained, exec_warned>>

probeVars == <<probe_args, probe_pc, probe_out, probe_tried, probe_warned>>

tsVars == <<ts_args, ts_pc, ts_stack, ts_ret, ts_out>>

vars == <<codecVars, cacheVars, poolVars, handle, aggVars, mergeVars, scanVars, tblVars, structVars, wrapVars, execVars, probeVars, tsVars>>

\* what each component leaves alone
notCodecVars == <<cacheVars, poolVars, handle, aggVars, mergeVars, scanVars, tblVars, structVars, wrapVars, execVars, probeVars, tsVars>>
notCacheVars == <<codecVars, poolVars, handle, aggVars, mergeVars, scanVars, tblVars, structVars, wrapVars, execVars, probeVars, tsVars>>
notPoolVars == <<codecVars, cacheVars, handle, aggVars, mergeVars, scanVars, tblVars, structVars, wrapVars, execVars, probeVars, tsVars>>
notAggVars == <<codecVars, cacheVars, poolVars, mergeVars, scanVars, tblVars, structVars, wrapVars, execVars, probeVars, tsVars>>
notMergeVars == <<codecVars, cacheVars, poolVars, aggVars, scanVars, tblVars, structVars, wrapVars, execVars, probeVars, tsVars>>
notScanVars == <<codecVars, cacheVars, poolVars, handle, aggVars, mergeVars, tblVars, structVars, wrapVars, execVars, probeVars, tsVars>>
notTblVars == <<codecVars, cacheVars, poolVars, handle, aggVars, mergeVars, scanVars, structVars, wrapVars, execVars, probeVars, tsVars>>
notStructVars == <<codecVars, cacheVars, poolVars, handle, aggVars, mergeVars, scanVars, tblVars, wrapVars, execVars, probeVars, tsVars>>
notWrapVars == <<codecVars, cacheVars, poolVars, handle, aggVars, mergeVars, scanVars, tblVars, structVars, execVars, probeVars, tsVars>>
notExecVars == <<codecVars, cacheVars, poolVars, handle, aggVars, mergeVars, scanVars, tblVars, structVars, wrapVars, probeVars, tsVars>>
notProbeVars == <<codecVars, cacheVars, poolVars, handle, aggVars, mergeVars, scanVars, tblVars, structVars, wrapVars, execVars, tsVars>>
notTsVars == <<codecVars, cacheVars, poolVars, handle, aggVars, mergeVars, scanVars, tblVars, structVars, wrapVars, execVars, probeVars>>

None == <<>>
Some(x) == <<x>>

\* F applied to a value that is computed once
ApplyTo(value, F(_)) == CHOOSE r \in {F(x) : x \in {value}} : TRUE

\* ------------------------------------------------------------------ bounds
MaxRows == 3        \* rows of an indexed column
MaxOffset == 3      \* largest end offset (length of the packed data)
MaxSubset == 3      \* length of a requested row subset

DataValues == {"x", "y"}

\* ----------------------------------------------------------------- helpers
SeqsUpTo(S, n) == UNION {[1..k -> S] : k \in 0..n}

IsNonDecreasing(s) == \A k \in 1..(Len(s) - 1) : s[k] <= s[k + 1]

Last0(s) == IF Len(s) = 0 THEN 0 ELSE s[Len(s)]

\* range(a, b) as a sequence of offsets
PyRange(a, b) == [k \in 1..(IF b > a THEN b - a ELSE 0) |-> a + k - 1]

\* arr[start:end] with Python's clamping of slice bounds
PySlice(arr, start, end) ==
    LET e == IF end > Len(arr) THEN Len(arr) ELSE end
    IN  [k \in 1..(IF e > start THEN e - start ELSE 0) |-> arr[start + k]]

\* arr[idx] for a list idx of offsets (one element per offset, in order)
FancyIndex(arr, idx) == [k \in 1..Len(idx) |-> arr[idx[k] + 1]]

np_diff(a) == [k \in 1..(Len(a) - 1) |-> a[k + 1] - a[k]]

RECURSIVE np_sum(_)
np_sum(a) == IF Len(a) = 0 THEN 0 ELSE a[1] + np_sum(Tail(a))

\* ------------------------------------------------- get_indexed_column_data
\* index_array = np.concatenate(([0], index_column_accessor[:]))
index_array(index) == <<0>> \o index

\* table_row_indices, defaulted to every row when None
requested_rows(index, rows) ==
    IF rows = None THEN PyRange(0, Len(index_array(index)) - 1) ELSE rows[1]

\* the offsets one requested row contributes: range(index_array[i], index_array[i + 1])
RowRangeFromZero(ia, i) == PyRange(0, ia[i + 2])
RowRange(ia, i) == PyRange(ia[i + 1], ia[i + 2])

\* for i in table_row_indices: data_indices.extend(range(...))
RECURSIVE extend_data_indices(_, _)
extend_data_indices(ia, rows) ==
    IF Len(rows) = 0 THEN <<>>
    ELSE RowRange(ia, rows[1]) \o extend_data_indices(ia, Tail(rows))

\* np.diff(index_array)[table_row_indices]
RunLengthsOfFirstRows(ia, rows) == PySlice(np_diff(ia), 0, Len(rows))
RunLengths(ia, rows) == FancyIndex(np_diff(ia), rows)

\* the re-split loop: start_idx, end_idx over the run lengths
RECURSIVE split_runs(_, _, _)
split_runs(data_array, runs, start_idx) ==
    IF Len(runs) = 0 THEN <<>>
    ELSE LET end_idx == start_idx + runs[1]
         IN  <<PySlice(data_array, start_idx, end_idx)>>
             \o split_runs(data_array, Tail(runs), end_idx)

get_indexed_column_data(data, index, rows) ==
    LET ia == index_array(index)
        tri == requested_rows(index, rows)
        di == extend_data_indices(ia, tri)
        assert_ok == Len(di) = np_sum(RunLengths(ia, tri))
        data_array == FancyIndex(data, di)
    IN  [assert_ok |-> assert_ok,
         data_indices |-> di,
         column_data |-> IF assert_ok
                         THEN split_runs(data_array, RunLengths(ia, tri), 0)
                         ELSE <<>>]

\* ------------------------------------------------------------ codec: spec
IndexArrays == {s \in SeqsUpTo(0..MaxOffset, MaxRows) : IsNonDecreasing(s)}

RowSubsets(index) ==
    {None} \cup {Some(s) : s \in SeqsUpTo(0..(Len(index) - 1), MaxSubset)}

CodecStart ==
    /\ index_column \in IndexArrays
    /\ data_column \in UNION {[1..n -> DataValues] : n \in Last0(index_column)..MaxOffset}
    /\ row_subset \in RowSubsets(index_column)
    /\ codec_pc = "call"
    /\ data_indices = <<>>
    /\ column_data = <<>>

CodecCall ==
    /\ codec_pc = "call"
    /\ LET r == get_indexed_column_data(data_column, index_column, row_subset)
       IN  /\ codec_pc' = IF r.assert_ok THEN "done" ELSE "AssertionError"
           /\ data_indices' = r.data_indices
           /\ column_data' = r.column_data
    /\ UNCHANGED <<data_column, index_column, row_subset>>

    /\ UNCHANGED notCodecVars

CodecIdle ==
    /\ index_column = <<>>
    /\ data_column = <<>>
    /\ row_subset = None
    /\ codec_pc = "idle"
    /\ data_indices = <<>>
    /\ column_data = <<>>

CodecNext == CodecCall

\* ---------------------------------------------------------- codec: claims
\* what the claims speak of, stated from the index alone
RowStart(i) == IF i > 0 THEN index_column[i] ELSE 0
RowEnd(i) == index_column[i + 1]
AskedRows ==
    IF row_subset = None THEN [j \in 1..Len(index_column) |-> j - 1] ELSE row_subset[1]

C2_NoOverRead ==
    codec_pc # "call" =>
        /\ codec_pc # "AssertionError"
        /\ Len(data_indices)
             = np_sum([j \in 1..Len(AskedRows) |->
                          RowEnd(AskedRows[j]) - RowStart(AskedRows[j])])
        /\ \A k \in 1..Len(data_indices) :
              \E j \in 1..Len(AskedRows) :
                  /\ RowStart(AskedRows[j]) <= data_indices[k]
                  /\ data_indices[k] < RowEnd(AskedRows[j])

C2_Witness ==
    /\ codec_pc = "done"
    /\ row_subset # None
    /\ Len(index_column) = 3
    /\ Len(AskedRows) = 1
    /\ AskedRows[1] = 1
    /\ Len(data_indices) > 0
    /\ Len(data_indices) < Len(data_column)
    /\ RowStart(1) > 0
\* ============================================================== files ====
\* A column (dataset) name of a table is <<base, k>>: the text base followed by
\* k copies of "_index", base itself not ending in "_index".  So
\* name.endswith("_index") is k > 0, f"{name}_index" is <<base, k + 1>> and
\* name.removesuffix("_index") is <<base, k - 1>> (the name itself when k = 0).
Col(base) == <<base, 0>>
IndexOf(name) == <<name[1], name[2] + 1>>
endswith_index(name) == name[2] > 0
removesuffix_index(name) == IF name[2] > 0 THEN <<name[1], name[2] - 1>> ELSE name

\* the number of dimensions of a dataset, by its name
ndim(name) ==
    IF name[2] = 0 /\ name[1] \in {"obs_intervals", "waveform_mean"} THEN 2 ELSE 1

\* The tables of the model's files.  names is the order in which the container
\* lists the table's datasets, n the number of rows, index the cumulative
\* end offsets of each ragged column.
UnitsFull ==
    [n |-> 2,
     names |-> <<Col("id"), Col("obs_intervals"), IndexOf(Col("obs_intervals")),
                 Col("region"), Col("spike_times"), IndexOf(Col("spike_times")),
                 Col("waveform_mean")>>,
     index |-> [spike_times |-> <<1, 3>>, obs_intervals |-> <<2, 3>>]]

UnitsLean ==
    [n |-> 1,
     names |-> <<Col("id"), Col("spike_times"), IndexOf(Col("spike_times"))>>,
     index |-> [spike_times |-> <<2>>]]

Trials ==
    [n |-> 1,
     names |-> <<Col("start_time")>>,
     index |-> <<>>]

NoTables == [p \in {} |-> Trials]

\* The files of the model: what each backend format makes of the path
\* (name_has_zarr is the test `"zarr" in key` of _open_file) and the tables
\* the container holds.
Files ==
    [a_nwb |-> [name_has_zarr |-> FALSE, hdf5_ok |-> TRUE, zarr_ok |-> FALSE,
                tables |-> [p \in {"/units"} |-> UnitsFull]],
     b_zarr |-> [name_has_zarr |-> TRUE, hdf5_ok |-> FALSE, zarr_ok |-> TRUE,
                 tables |-> [p \in {"/units"} |-> UnitsLean]],
     c_nwb |-> [name_has_zarr |-> FALSE, hdf5_ok |-> TRUE, zarr_ok |-> FALSE,
                tables |-> [p \in {"/intervals/trials"} |-> Trials]],
     d_nwb |-> [name_has_zarr |-> FALSE, hdf5_ok |-> TRUE, zarr_ok |-> FALSE,
                tables |-> [p \in {"/units"} |-> UnitsLean]],
     e_nwb |-> [name_has_zarr |-> FALSE, hdf5_ok |-> TRUE, zarr_ok |-> FALSE,
                tables |-> [p \in {"/intervals/trials", "/intervals/epochs"} |-> Trials]],
     bad_nwb |-> [name_has_zarr |-> FALSE, hdf5_ok |-> FALSE, zarr_ok |-> FALSE,
                  tables |-> NoTables]]

\* the value stored in file f, table t, flat column name, row r (0-based)
CellValue(f, t, name, r) == <<f, t, name, r>>

\* the packed data array of a ragged column: element k (0-based) is its own tag
ColumnDataArray(f, t, name) ==
    [k \in 1..Last0(Files[f].tables[t].index[name[1]]) |-> <<f, t, name, "data", k - 1>>]

ColumnIndexArray(f, t, name) == Files[f].tables[t].index[name[1]]

\* ===================================================== table resolver ====
\* The texts the resolver compares, as sequences of characters.
Chars(p) ==
    CASE p = "/units" -> <<"/", "u", "n", "i", "t", "s">>
      [] p = "units" -> <<"u", "n", "i", "t", "s">>
      [] p = "trial" -> <<"t", "r", "i", "a", "l">>
      [] p = "/trial" -> <<"/", "t", "r", "i", "a", "l">>
      [] p = "/intervals/trials" ->
            <<"/", "i", "n", "t", "e", "r", "v", "a", "l", "s", "/", "t", "r", "i", "a", "l", "s">>
      [] p = "/intervals/epochs" ->
            <<"/", "i", "n", "t", "e", "r", "v", "a", "l", "s", "/", "e", "p", "o", "c", "h", "s">>

Texts == {"/units", "units", "trial", "/trial", "/intervals/trials", "/intervals/epochs"}

TextOf(chars) == CHOOSE p \in Texts : Chars(p) = chars

\* the code point of a character (for the comparison of two texts)
Ord(c) ==
    CASE c = "/" -> 47 [] c = "a" -> 97 [] c = "c" -> 99 [] c = "e" -> 101
      [] c = "h" -> 104 [] c = "i" -> 105 [] c = "l" -> 108 [] c = "n" -> 110
      [] c = "o" -> 111 [] c = "p" -> 112 [] c = "r" -> 114 [] c = "s" -> 115
      [] c = "t" -> 116 [] c = "u" -> 117 [] c = "v" -> 118

RECURSIVE chars_greater(_, _)
chars_greater(a, b) ==
    IF Len(a) = 0 THEN FALSE
    ELSE IF Len(b) = 0 THEN TRUE
    ELSE IF Ord(a[1]) # Ord(b[1]) THEN Ord(a[1]) > Ord(b[1])
    ELSE chars_greater(Tail(a), Tail(b))

\* `x in y` for two texts
is_substring(x, y) ==
    \E i \in 0..(Len(y) - Len(x)) : SubSeq(y, i + 1, i + Len(x)) = x

\* normalize_internal_file_path: add a leading "/" when there is none
normalize_internal_file_path(path) ==
    IF Len(Chars(path)) > 0 /\ Chars(path)[1] = "/" THEN path
    ELSE TextOf(<<"/">> \o Chars(path))

\* ---- difflib.SequenceMatcher(None, a, b).ratio() ----
\* the length of the common run of a from offset i and b from offset j
RECURSIVE match_length(_, _, _, _, _, _)
match_length(a, b, i, j, ahi, bhi) ==
    IF i < ahi /\ j < bhi /\ a[i + 1] = b[j + 1]
    THEN 1 + match_length(a, b, i + 1, j + 1, ahi, bhi)
    ELSE 0

MaxOf(S) == ApplyTo(S, LAMBDA T : CHOOSE m \in T : \A x \in T : x <= m)
MinOf(S) == ApplyTo(S, LAMBDA T : CHOOSE m \in T : \A x \in T : m <= x)

\* find_longest_match: the longest block, the earliest in a, then earliest in b
find_longest_match(a, b, alo, ahi, blo, bhi) ==
    LET starts == (alo..(ahi - 1)) \X (blo..(bhi - 1))
    IN  IF starts = {} THEN <<alo, blo, 0>>
        ELSE ApplyTo([ij \in starts |-> match_length(a, b, ij[1], ij[2], ahi, bhi)],
                 LAMBDA size :
             ApplyTo(MaxOf({size[ij] : ij \in starts}), LAMBDA k :
                 IF k = 0 THEN <<alo, blo, 0>>
                 ELSE ApplyTo(MinOf({ij[1] : ij \in {x \in starts : size[x] = k}}),
                          LAMBDA i :
                      <<i,
                        MinOf({ij[2] : ij \in {x \in starts : size[x] = k /\ x[1] = i}}),
                        k>>)))

\* get_matching_blocks: the total size of the matching blocks
RECURSIVE matches(_, _, _, _, _, _)
matches(a, b, alo, ahi, blo, bhi) ==
    ApplyTo(find_longest_match(a, b, alo, ahi, blo, bhi), LAMBDA m :
        IF m[3] = 0 THEN 0
        ELSE m[3]
             + (IF alo < m[1] /\ blo < m[2] THEN matches(a, b, alo, m[1], blo, m[2]) ELSE 0)
             + (IF m[1] + m[3] < ahi /\ m[2] + m[3] < bhi
                THEN matches(a, b, m[1] + m[3], ahi, m[2] + m[3], bhi) ELSE 0))

\* ratio() = 2.0 * matches / (len(a) + len(b)), kept as the pair <<2M, T>>
ratio(a, b) == <<2 * matches(a, b, 0, Len(a), 0, Len(b)), Len(a) + Len(b)>>

\* the similarity floor: cutoff=0.3
CutoffTenths == 3

\* a matcher without a floor
reaches_any(r) == r[1] >= 0
reaches_cutoff(r) == ApplyTo(r, LAMBDA q : q[1] * 10 >= CutoffTenths * q[2])

\* the (ratio, text) pairs are ordered as Python orders tuples
scored_greater(x, y, word) ==
    ApplyTo(<<ratio(Chars(x), Chars(word)), ratio(Chars(y), Chars(word))>>, LAMBDA r :
        \/ r[1][1] * r[2][2] > r[2][1] * r[1][2]
        \/ r[1][1] * r[2][2] = r[2][1] * r[1][2] /\ chars_greater(Chars(x), Chars(y)))

\* difflib.get_close_matches(word, possibilities, n=1, cutoff=0.3): the best
\* match as a set of at most one element
get_close_matches(word, possibilities) ==
    ApplyTo({x \in possibilities : reaches_cutoff(ratio(Chars(x), Chars(word)))},
        LAMBDA close : {x \in close : \A y \in close \ {x} : scored_greater(x, y, word)})

\* group.name.count("/") of an internal path
count_slashes(p) == Cardinality({i \in 1..Len(Chars(p)) : Chars(p)[i] = "/"})

\* _get_internal_file_paths(file._accessor) with its default flags: the tables
\* of the container that are not directly under the root
get_internal_file_paths(file) ==
    {p \in DOMAIN file.tables : count_slashes(p) # 1}

\* ================================================ single-file materializer ====
NWB_PATH_COLUMN_NAME == Col("_nwb_path")
TABLE_PATH_COLUMN_NAME == Col("_table_path")
TABLE_INDEX_COLUMN_NAME == Col("_table_index")

KeyColumns == {NWB_PATH_COLUMN_NAME, TABLE_PATH_COLUMN_NAME, TABLE_INDEX_COLUMN_NAME}

\* A frame is a set of column names and a sequence of rows, each row a
\* function from the column names to values.
EmptyFrame == [columns |-> {}, rows |-> <<>>]

\* a missing value of a frame, and a per-row array of a frame
Null == <<"null">>
Arr(elements) == <<"array", elements>>

Failure(kind, warned) == [kind |-> kind, warned |-> warned, frame |-> EmptyFrame]

SeqToSet(q) == {q[i] : i \in 1..Len(q)}

is_nominally_indexed_column(column_name, all_column_names) ==
    IF column_name \notin all_column_names THEN FALSE
    ELSE IF endswith_index(column_name)
         THEN removesuffix_index(column_name) \in all_column_names
         ELSE IndexOf(column_name) \in all_column_names

get_indexed_column_names(column_names) ==
    {k \in column_names : is_nominally_indexed_column(k, column_names)}

\* the table the search term resolves to (tables.py 252-270), as
\* [found, path, warned]
resolve_table(file, search_term, exact_path) ==
    IF ~exact_path /\ normalize_internal_file_path(search_term) \notin DOMAIN file.tables
    THEN ApplyTo(get_internal_file_paths(file), LAMBDA path_to_accessor :
         ApplyTo(get_close_matches(search_term, path_to_accessor), LAMBDA found :
             IF found = {} THEN [found |-> FALSE, path |-> search_term, warned |-> FALSE]
             ELSE ApplyTo(CHOOSE m \in found : TRUE, LAMBDA match_ :
                      [found |-> TRUE, path |-> match_,
                       warned |->
                          \/ ~is_substring(Chars(search_term), Chars(match_))
                          \/ Cardinality({k \in path_to_accessor :
                                 is_substring(Chars(match_), Chars(k))}) > 1])))
    ELSE [found |-> TRUE, path |-> search_term, warned |-> FALSE]

\* one pass of the loop over tuple(column_accessors.keys()) (tables.py 298-312)
filter_column(keys, name, include, exclude, exclude_array_columns) ==
    LET is_indexed == is_nominally_indexed_column(name, keys)
        is_excluded == exclude # None /\ name \in exclude[1]
        is_included == include # None /\ name \in include[1]
        is_not_included == include # None /\ name \notin include[1]
    IN  IF \/ is_not_included
           \/ is_excluded
           \/ (exclude_array_columns /\ is_indexed /\ ~is_included)
        THEN keys \ {name, IndexOf(name), removesuffix_index(name)}
        ELSE keys

RECURSIVE filter_columns(_, _, _, _, _)
filter_columns(keys, names, include, exclude, exclude_array_columns) ==
    IF Len(names) = 0 THEN keys
    ELSE ApplyTo(filter_column(keys, names[1], include, exclude, exclude_array_columns),
             LAMBDA kept :
                 filter_columns(kept, Tail(names), include, exclude, exclude_array_columns))

\* _get_table_data from the column accessors on (tables.py 288-376): keys are
\* the columns left by the filter loop
materialize(f, table_path, table, keys, args, warned) ==
    LET indexed_column_names == get_indexed_column_names(keys)
        non_indexed_column_names == keys \ indexed_column_names
        multi_dim_column_names == {c \in non_indexed_column_names : ndim(c) >= 2}
        flat_column_names == non_indexed_column_names \ multi_dim_column_names
        data_column_names ==
            IF ~args.exclude_array_columns
            THEN {c \in indexed_column_names : ~endswith_index(c)}
            ELSE {}
        array_column_names ==
            IF ~args.exclude_array_columns THEN multi_dim_column_names ELSE {}
        idx == IF args.table_row_indices = None THEN PyRange(0, table.n)
               ELSE args.table_row_indices[1]
    IN  ApplyTo([c \in data_column_names |->
                    get_indexed_column_data(ColumnDataArray(f, table_path, c),
                                            ColumnIndexArray(f, table_path, c),
                                            args.table_row_indices)],
            LAMBDA ragged :
        ApplyTo(<<flat_column_names \cup array_column_names, data_column_names, idx>>,
            LAMBDA cols :
                IF \E c \in cols[2] : ~ragged[c].assert_ok
                THEN Failure("AssertionError", warned)
                ELSE IF cols[1] \cup cols[2] = {} THEN Failure("StopIteration", warned)
                ELSE
                LET column_length ==
                        IF cols[1] # {} THEN Len(cols[3])
                        ELSE Len(ragged[CHOOSE c \in cols[2] : TRUE].column_data)
                    value(c, j) ==
                        IF c \in cols[2] THEN Arr(ragged[c].column_data[j])
                        ELSE CellValue(f, table_path, c, cols[3][j])
                    row(j) == [c \in cols[1] \cup cols[2] \cup KeyColumns |->
                                  IF c = NWB_PATH_COLUMN_NAME THEN f
                                  ELSE IF c = TABLE_PATH_COLUMN_NAME THEN table_path
                                  ELSE IF c = TABLE_INDEX_COLUMN_NAME THEN j - 1
                                  ELSE value(c, j)]
                IN  [kind |-> "ok", warned |-> warned,
                     frame |-> [columns |-> cols[1] \cup cols[2] \cup KeyColumns,
                                rows |-> [j \in 1..column_length |-> row(j)]]]))

\* _get_table_data (tables.py 242-376) on an open file f
get_table_data(f, args) ==
    ApplyTo(resolve_table(Files[f], args.search_term, args.exact_path), LAMBDA res :
        LET file == Files[f]
            table_path == normalize_internal_file_path(res.path)
            include == args.include_column_names
            exclude == args.exclude_column_names
        IN  IF ~res.found THEN Failure("KeyError", FALSE)
            ELSE IF table_path \notin DOMAIN file.tables THEN Failure("KeyError", res.warned)
            ELSE IF /\ include # None /\ include[1] # {}
                    /\ exclude # None /\ exclude[1] # {}
                    /\ include[1] \cap exclude[1] # {}
            THEN Failure("ValueError", res.warned)
            ELSE ApplyTo(filter_columns(SeqToSet(file.tables[table_path].names),
                                        file.tables[table_path].names, include, exclude,
                                        args.exclude_array_columns),
                     LAMBDA keys :
                         materialize(f, table_path, file.tables[table_path], keys, args,
                                     res.warned)))

\* ===================================================== accessor cache ====
NumThreads == 2     \* callers that may be inside FileAccessor(path) at once
MaxOpens == 3       \* open() calls in one behaviour
MaxClears == 1      \* clear_cache() calls in one behaviour

Threads == 1..NumThreads

\* the canonical keys (u_path.as_posix()) that open() is called with
Keys == {"a_nwb", "bad_nwb"}

\* _open_file: HDF5 unless the name holds "zarr", then Zarr, then ValueError
open_file(f) ==
    IF ~f.name_has_zarr /\ f.hdf5_ok THEN "hdf5"
    ELSE IF f.zarr_ok THEN "zarr"
    ELSE "ValueError"

IdleThread == [pc |-> "idle", key |-> "", inst |-> 0]

CacheStart ==
    /\ accessor_cache = [k \in Keys |-> 0]
    /\ instances = <<>>
    /\ thread = [t \in Threads |-> IdleThread]
    /\ n_open = [k \in Keys |-> 0]
    /\ returned = {}
    /\ raised = {}
    /\ epoch = 0
    /\ open_calls = 0

CacheIdle ==
    /\ accessor_cache = <<>>
    /\ instances = <<>>
    /\ thread = <<>>
    /\ n_open = <<>>
    /\ returned = {}
    /\ raised = {}
    /\ epoch = 0
    /\ open_calls = 0

\* open(path) / FileAccessor(path): the call enters __new__
OpenCall(t, k) ==
    /\ thread[t].pc = "idle"
    /\ open_calls < MaxOpens
    /\ open_calls' = open_calls + 1
    /\ thread' = [thread EXCEPT ![t] = [pc |-> "new", key |-> k, inst |-> 0]]
    /\ UNCHANGED <<accessor_cache, instances, n_open, returned, raised, epoch>>
    /\ UNCHANGED notCacheVars

\* __new__: `if accessor is None and key in _accessor_cache`
cache_hit(cache, k) == cache[k] # 0

NewCheck(t) ==
    /\ thread[t].pc = "new"
    /\ thread' = [thread EXCEPT ![t].pc =
                     IF cache_hit(accessor_cache, thread[t].key)
                     THEN "new_hit" ELSE "new_miss"]
    /\ UNCHANGED <<accessor_cache, instances, n_open, returned, raised, epoch,
                   open_calls>>
    /\ UNCHANGED notCacheVars

\* __new__, cached: instance = _accessor_cache[key]; instance._skip_init = True
NewHit(t) ==
    /\ thread[t].pc = "new_hit"
    /\ LET k == thread[t].key
           i == accessor_cache[k]
       IN  IF i = 0
           THEN \* the entry was cleared after the membership test
                /\ raised' = raised \cup {<<k, "KeyError">>}
                /\ thread' = [thread EXCEPT ![t] = IdleThread]
                /\ UNCHANGED instances
           ELSE /\ instances' = [instances EXCEPT ![i].skip_init = TRUE]
                /\ thread' = [thread EXCEPT ![t].pc = "init", ![t].inst = i]
                /\ UNCHANGED raised
    /\ UNCHANGED <<accessor_cache, n_open, returned, epoch, open_calls>>
    /\ UNCHANGED notCacheVars

\* __new__, not cached: instance = super().__new__(cls); _accessor_cache[key] = instance
NewMiss(t) ==
    /\ thread[t].pc = "new_miss"
    /\ LET i == Len(instances) + 1
       IN  /\ instances' = Append(instances,
                                  [key |-> thread[t].key, skip_init |-> FALSE,
                                   accessor |-> "unset"])
           /\ accessor_cache' = [accessor_cache EXCEPT ![thread[t].key] = i]
           /\ thread' = [thread EXCEPT ![t].pc = "init", ![t].inst = i]
    /\ UNCHANGED <<n_open, returned, raised, epoch, open_calls>>
    /\ UNCHANGED notCacheVars

\* __init__: `if getattr(self, "_skip_init", False)`
InitCheck(t) ==
    /\ thread[t].pc = "init"
    /\ thread' = [thread EXCEPT ![t].pc =
                     IF instances[thread[t].inst].skip_init
                     THEN "init_skip" ELSE "init_open"]
    /\ UNCHANGED <<accessor_cache, instances, n_open, returned, raised, epoch,
                   open_calls>>
    /\ UNCHANGED notCacheVars

\* __init__, cached instance: delattr(self, "_skip_init"); return
InitSkip(t) ==
    /\ thread[t].pc = "init_skip"
    /\ LET i == thread[t].inst
       IN  IF instances[i].skip_init
           THEN /\ instances' = [instances EXCEPT ![i].skip_init = FALSE]
                /\ returned' = returned \cup {<<thread[t].key, i, epoch>>}
                /\ UNCHANGED raised
           ELSE \* another caller deleted the attribute first
                /\ raised' = raised \cup {<<thread[t].key, "AttributeError">>}
                /\ UNCHANGED <<instances, returned>>
    /\ thread' = [thread EXCEPT ![t] = IdleThread]
    /\ UNCHANGED <<accessor_cache, n_open, epoch, open_calls>>
    /\ UNCHANGED notCacheVars

\* __init__, new instance: self._accessor = _open_file(self._path)
InitOpen(t) ==
    /\ thread[t].pc = "init_open"
    /\ LET i == thread[t].inst
           k == thread[t].key
           backend == open_file(Files[k])
       IN  IF backend = "ValueError"
           THEN /\ raised' = raised \cup {<<k, "ValueError">>}
                /\ UNCHANGED <<instances, n_open, returned>>
           ELSE /\ instances' = [instances EXCEPT ![i].accessor = backend]
                /\ n_open' = [n_open EXCEPT ![k] = @ + 1]
                /\ returned' = returned \cup {<<k, i, epoch>>}
                /\ UNCHANGED raised
    /\ thread' = [thread EXCEPT ![t] = IdleThread]
    /\ UNCHANGED <<accessor_cache, epoch, open_calls>>
    /\ UNCHANGED notCacheVars

\* clear_cache(): _accessor_cache.clear()
not_cleared(cache) == cache
cleared(cache) == [k \in DOMAIN cache |-> 0]

ClearCache(t) ==
    /\ thread[t].pc = "idle"
    /\ epoch < MaxClears
    /\ accessor_cache' = cleared(accessor_cache)
    /\ epoch' = epoch + 1
    /\ UNCHANGED <<instances, thread, n_open, returned, raised, open_calls>>
    /\ UNCHANGED notCacheVars

CacheNext(T) ==
    \/ \E t \in T : \E k \in Keys : OpenCall(t, k)
    \/ \E t \in T : NewCheck(t)
    \/ \E t \in T : NewHit(t)
    \/ \E t \in T : NewMiss(t)
    \/ \E t \in T : InitCheck(t)
    \/ \E t \in T : InitSkip(t)
    \/ \E t \in T : InitOpen(t)
    \/ \E t \in T : ClearCache(t)

\* one caller: every open() and clear_cache() runs to its end before the next
SequentialNext == CacheNext({1})

\* several callers, switched between any two steps
ConcurrentNext == CacheNext(Threads)

\* ---------------------------------------------------------- cache: claims
\* C6: single-threaded, two open() calls on one canonical path with no
\* clear_cache() between them return the same instance, and an open() after a
\* clear_cache() returns an instance different from the one returned before.
C6_CacheIdentity ==
    \A r1 \in returned : \A r2 \in returned :
        r1[1] = r2[1] => (r1[3] = r2[3] <=> r1[2] = r2[2])

C6_Witness ==
    /\ \E r1 \in returned : \E r2 \in returned :
          r1[1] = r2[1] /\ r1[3] = 0 /\ r2[3] = 1 /\ r1[2] # r2[2]
    /\ open_calls = 3
    /\ thread[1].pc = "idle"
    /\ raised = {}

\* C7: concurrent first opens of one path perform exactly one backend open and
\* hand every caller the same instance.
C7_OneOpenPerKey ==
    epoch = 0 =>
        /\ \A k \in Keys : n_open[k] <= 1
        /\ \A r1 \in returned : \A r2 \in returned :
              r1[1] = r2[1] => r1[2] = r2[2]

\* C20: a clear_cache() call leaves the cache empty and leaves no accessor
\* that was in the cache with an open backend handle.
C20_ClearCloses ==
    [][epoch' = epoch + 1 =>
          /\ \A k \in Keys : accessor_cache'[k] = 0
          /\ \A k \in Keys :
                accessor_cache[k] # 0 =>
                    instances'[accessor_cache[k]].accessor \notin {"hdf5", "zarr"}]_vars

\* an instance a caller is still inside __new__ / __init__ of
under_construction(i) ==
    \E t \in Threads : thread[t].inst = i /\ thread[t].pc \in {"init", "init_open"}

\* C23: every instance open() / FileAccessor(path) returned, and every
\* instance held in the cache that no caller is still constructing, has its
\* _accessor assigned, in every interleaving and after a failed open (which
\* leaves no entry in the cache).
C23_Initialised ==
    /\ \A r \in returned : instances[r[2]].accessor # "unset"
    /\ \A k \in Keys :
          (accessor_cache[k] # 0 /\ ~under_construction(accessor_cache[k])) =>
              instances[accessor_cache[k]].accessor # "unset"

\* ======================================================== worker pool ====
NumWorkers == 2         \* max_workers of the shared ThreadPoolExecutor
MaxPoolSources == 3     \* sources of one get_df call
NumColumns == 2         \* columns of the requested table

Workers == 1..NumWorkers

NoTask == [kind |-> "none", src |-> 0, col |-> 0]
SourceTask(s) == [kind |-> "source", src |-> s, col |-> 0]
ColumnTask(s, c) == [kind |-> "column", src |-> s, col |-> c]
IdleWorker == [task |-> NoTask, at |-> "idle"]

PoolStart ==
    /\ \E n \in 2..MaxPoolSources : pool_backend \in [1..n -> {"hdf5", "zarr"}]
    /\ pool_queue = <<>>
    /\ pool_worker = [w \in Workers |-> IdleWorker]
    /\ pool_done = {}
    /\ pool_main = "submit"
    /\ pool_submitted = 0
    /\ pool_drained = {}

PoolIdle ==
    /\ pool_backend = <<>>
    /\ pool_queue = <<>>
    /\ pool_worker = <<>>
    /\ pool_done = {}
    /\ pool_main = "idle"
    /\ pool_submitted = 0
    /\ pool_drained = {}

\* get_df: for path in paths: executor.submit(_get_df_helper, nwb_path=path, ...)
PoolSubmit ==
    /\ pool_main = "submit"
    /\ pool_submitted' = pool_submitted + 1
    /\ pool_queue' = Append(pool_queue, SourceTask(pool_submitted + 1))
    /\ pool_main' = IF pool_submitted + 1 = Len(pool_backend) THEN "drain" ELSE "submit"
    /\ UNCHANGED <<pool_backend, pool_worker, pool_done, pool_drained>>
    /\ UNCHANGED notPoolVars

\* a free worker thread of the executor takes the oldest queued task
WorkerTake(w) ==
    /\ pool_worker[w].at = "idle"
    /\ Len(pool_queue) > 0
    /\ pool_worker' = [pool_worker EXCEPT ![w] = [task |-> Head(pool_queue), at |-> "run"]]
    /\ pool_queue' = Tail(pool_queue)
    /\ UNCHANGED <<pool_backend, pool_done, pool_main, pool_submitted, pool_drained>>
    /\ UNCHANGED notPoolVars

\* _get_table_data: use_thread_pool = (file._hdmf_backend == ZARR)
use_thread_pool(backend) == backend = "zarr"

\* _get_table_column_accessors inside a per-source task: with use_thread_pool
\* one file[table_path].get task per column is submitted to the same executor
SourceEnumerate(w) ==
    /\ pool_worker[w].at = "run"
    /\ pool_worker[w].task.kind = "source"
    /\ LET s == pool_worker[w].task.src
       IN  IF use_thread_pool(pool_backend[s])
           THEN /\ pool_queue' = pool_queue \o [c \in 1..NumColumns |-> ColumnTask(s, c)]
                /\ pool_worker' = [pool_worker EXCEPT ![w].at = "as_completed"]
           ELSE /\ pool_queue' = pool_queue
                /\ pool_worker' = [pool_worker EXCEPT ![w].at = "materialize"]
    /\ UNCHANGED <<pool_backend, pool_done, pool_main, pool_submitted, pool_drained>>
    /\ UNCHANGED notPoolVars

\* a per-column task: file[table_path].get(column_name)
ColumnGet(w) ==
    /\ pool_worker[w].at = "run"
    /\ pool_worker[w].task.kind = "column"
    /\ pool_done' = pool_done \cup {pool_worker[w].task}
    /\ pool_worker' = [pool_worker EXCEPT ![w] = IdleWorker]
    /\ UNCHANGED <<pool_backend, pool_queue, pool_main, pool_submitted, pool_drained>>
    /\ UNCHANGED notPoolVars

\* for future in as_completed(future_to_column): future.result()
SourceCollect(w) ==
    /\ pool_worker[w].at = "as_completed"
    /\ \A c \in 1..NumColumns : ColumnTask(pool_worker[w].task.src, c) \in pool_done
    /\ pool_worker' = [pool_worker EXCEPT ![w].at = "materialize"]
    /\ UNCHANGED <<pool_backend, pool_queue, pool_done, pool_main, pool_submitted,
                   pool_drained>>
    /\ UNCHANGED notPoolVars

\* the rest of _get_table_data; the per-source future completes
SourceFinish(w) ==
    /\ pool_worker[w].at = "materialize"
    /\ pool_done' = pool_done \cup {pool_worker[w].task}
    /\ pool_worker' = [pool_worker EXCEPT ![w] = IdleWorker]
    /\ UNCHANGED <<pool_backend, pool_queue, pool_main, pool_submitted, pool_drained>>
    /\ UNCHANGED notPoolVars

\* get_df: for future in as_completed(future_to_path): results.append(future.result())
PoolDrain ==
    /\ pool_main = "drain"
    /\ \E s \in 1..Len(pool_backend) :
          /\ SourceTask(s) \in pool_done
          /\ s \notin pool_drained
          /\ pool_drained' = pool_drained \cup {s}
          /\ pool_main' = IF pool_drained' = 1..Len(pool_backend) THEN "done" ELSE "drain"
    /\ UNCHANGED <<pool_backend, pool_queue, pool_worker, pool_done, pool_submitted>>
    /\ UNCHANGED notPoolVars

PoolNext ==
    \/ PoolSubmit
    \/ \E w \in Workers : WorkerTake(w)
    \/ \E w \in Workers : SourceEnumerate(w)
    \/ \E w \in Workers : ColumnGet(w)
    \/ \E w \in Workers : SourceCollect(w)
    \/ \E w \in Workers : SourceFinish(w)
    \/ PoolDrain

\* ----------------------------------------------------------- pool: claims
\* C8: with a pool of W workers and N sources every get_df call returns: no
\* pool task blocks on the result of another task of the same pool.  As long
\* as the call has not returned, some step of it can be taken.
C8_GetDfReturns == pool_main = "done" \/ ENABLED PoolNext

\* ================================================ multi-source aggregator ====
MaxSources == 2
MaxCalls == 2

Paths == {"a_nwb", "b_zarr", "c_nwb", "d_nwb"}
SearchTerms == {"/units", "units"}

hdmf_backend(f) == open_file(Files[f])

SourceLists ==
    {q \in SeqsUpTo(Paths, MaxSources) :
        Len(q) >= 1 /\ \A i \in 1..Len(q) : \A j \in 1..Len(q) : q[i] = q[j] => i = j}

GetDfArgs ==
    [sources : SourceLists,
     search_term : SearchTerms,
     exact_path : BOOLEAN,
     include_column_names : {None},
     exclude_column_names : {None},
     exclude_array_columns : BOOLEAN,
     table_row_indices : {None},
     raise_on_missing : BOOLEAN,
     suppress_errors : BOOLEAN]

\* h5py raises on every access through a closed file: ValueError for the
\* invalid identifier, KeyError where the failed lookup is reported as a
\* missing object
ClosedHandleErrors == {"ValueError", "KeyError"}

\* FileAccessor(path): the cached accessor, opened by _open_file when new
accessor_handle(h) == IF h = "absent" THEN "open" ELSE h

\* FileAccessor.__exit__: closes the h5py.File, or the store of the zarr.Group
exit_handle(h) == "closed"

\* _get_df_helper inside its context: what _get_table_data gives through the
\* accessor of path f
helper_outcomes(f, h, args, table_row_indices) ==
    IF accessor_handle(h) = "closed" /\ hdmf_backend(f) = "hdf5"
    THEN {Failure(kind, FALSE) : kind \in ClosedHandleErrors}
    ELSE {get_table_data(f, [args EXCEPT !.table_row_indices = table_row_indices])}

RECURSIVE concat_rows(_, _, _)
concat_rows(results, columns, k) ==
    IF k > Len(results) THEN <<>>
    ELSE [j \in 1..Len(results[k].rows) |->
             [c \in columns |-> IF c \in results[k].columns
                                THEN results[k].rows[j][c] ELSE Null]]
         \o concat_rows(results, columns, k + 1)

\* the columns a join="inner" concatenation would keep
concat_columns_inner(results) ==
    {c \in UNION {results[k].columns : k \in 1..Len(results)} :
        \A k \in 1..Len(results) : c \in results[k].columns}
\* the columns pd.concat / pl.concat(how="diagonal_relaxed") keep
concat_columns(results) == UNION {results[k].columns : k \in 1..Len(results)}

concat(results) ==
    [columns |-> concat_columns(results),
     rows |-> concat_rows(results, concat_columns(results), 1)]

\* a new process: no path has a cached accessor
NoHandles == handle = [f \in Paths |-> "absent"]

AggStart ==
    /\ agg_args \in GetDfArgs
    /\ agg_pc = "call"
    /\ agg_future = <<>>
    /\ agg_drained = {}
    /\ agg_results = <<>>
    /\ agg_warned = {}
    /\ agg_frame = EmptyFrame
    /\ agg_error = ""
    /\ agg_calls = 0

AggIdle ==
    /\ agg_args = None
    /\ agg_pc = "idle"
    /\ agg_future = <<>>
    /\ agg_drained = {}
    /\ agg_results = <<>>
    /\ agg_warned = {}
    /\ agg_frame = EmptyFrame
    /\ agg_error = ""
    /\ agg_calls = 0

\* get_df with len(paths) == 1: the helper runs in the caller, its exception
\* propagates, table_row_indices is passed on
GetDfInline ==
    /\ agg_pc = "call"
    /\ Len(agg_args.sources) = 1
    /\ LET f == agg_args.sources[1]
       IN  /\ \E out \in helper_outcomes(f, handle[f], agg_args, agg_args.table_row_indices) :
                 IF out.kind = "ok"
                 THEN agg_pc' = "returned" /\ agg_frame' = out.frame /\ agg_error' = ""
                 ELSE agg_pc' = "raised" /\ agg_frame' = EmptyFrame /\ agg_error' = out.kind
           /\ handle' = [handle EXCEPT ![f] = exit_handle(accessor_handle(@))]
    /\ agg_calls' = agg_calls + 1
    /\ agg_future' = <<>>
    /\ agg_drained' = {}
    /\ agg_results' = <<>>
    /\ agg_warned' = {}
    /\ UNCHANGED agg_args
    /\ UNCHANGED notAggVars

\* get_df with several paths: one _get_df_helper task per path, submitted
\* without table_row_indices
GetDfSubmit ==
    /\ agg_pc = "call"
    /\ Len(agg_args.sources) > 1
    /\ agg_pc' = "drain"
    /\ agg_future' = [i \in 1..Len(agg_args.sources) |-> None]
    /\ agg_drained' = {}
    /\ agg_results' = <<>>
    /\ agg_warned' = {}
    /\ agg_frame' = EmptyFrame
    /\ agg_error' = ""
    /\ agg_calls' = agg_calls + 1
    /\ UNCHANGED <<agg_args, handle>>
    /\ UNCHANGED notAggVars

\* a pool worker runs _get_df_helper for source i
HelperRun(i) ==
    /\ i \in DOMAIN agg_future
    /\ agg_future[i] = None
    /\ LET f == agg_args.sources[i]
       IN  /\ \E out \in helper_outcomes(f, handle[f], agg_args, None) :
                 agg_future' = [agg_future EXCEPT ![i] = Some(out)]
           /\ handle' = [handle EXCEPT ![f] = exit_handle(accessor_handle(@))]
    /\ UNCHANGED <<agg_args, agg_pc, agg_drained, agg_results, agg_warned, agg_frame,
                   agg_error, agg_calls>>
    /\ UNCHANGED notAggVars

\* one pass of `for future in futures` over a completed future
GetDfDrain(i) ==
    /\ agg_pc = "drain"
    /\ i \in DOMAIN agg_future
    /\ i \notin agg_drained
    /\ agg_future[i] # None
    /\ agg_drained' = agg_drained \cup {i}
    /\ LET out == agg_future[i][1]
       IN  IF out.kind = "ok"
           THEN /\ agg_results' = Append(agg_results, out.frame)
                /\ UNCHANGED <<agg_pc, agg_warned, agg_error>>
           ELSE IF out.kind = "KeyError"
           THEN IF agg_args.raise_on_missing
                THEN /\ agg_pc' = "raised"
                     /\ agg_error' = out.kind
                     /\ UNCHANGED <<agg_results, agg_warned>>
                ELSE /\ agg_warned' = agg_warned \cup {agg_args.sources[i]}
                     /\ UNCHANGED <<agg_pc, agg_results, agg_error>>
           ELSE IF ~agg_args.suppress_errors
                THEN /\ agg_pc' = "raised"
                     /\ agg_error' = out.kind
                     /\ UNCHANGED <<agg_results, agg_warned>>
                ELSE UNCHANGED <<agg_pc, agg_results, agg_warned, agg_error>>
    /\ UNCHANGED <<agg_args, agg_future, agg_frame, agg_calls, handle>>
    /\ UNCHANGED notAggVars

\* pd.concat / pl.concat over the results; both raise ValueError on no results
GetDfConcat ==
    /\ agg_pc = "drain"
    /\ agg_drained = DOMAIN agg_future
    /\ IF agg_results = <<>>
       THEN agg_pc' = "raised" /\ agg_error' = "ValueError" /\ UNCHANGED agg_frame
       ELSE agg_pc' = "returned" /\ agg_frame' = concat(agg_results) /\ UNCHANGED agg_error
    /\ UNCHANGED <<agg_args, agg_future, agg_drained, agg_results, agg_warned, agg_calls,
                   handle>>
    /\ UNCHANGED notAggVars

tasks_finished == \A i \in DOMAIN agg_future : agg_future[i] # None

\* the caller repeats the call
GetDfAgain ==
    /\ agg_pc \in {"returned", "raised"}
    /\ tasks_finished
    /\ agg_calls < MaxCalls
    /\ agg_pc' = "call"
    /\ UNCHANGED <<agg_args, agg_future, agg_drained, agg_results, agg_warned, agg_frame,
                   agg_error, agg_calls, handle>>
    /\ UNCHANGED notAggVars

\* clear_cache() between calls: the next FileAccessor(path) opens the file anew
GetDfClearCache ==
    /\ agg_pc \in {"returned", "raised"}
    /\ tasks_finished
    /\ agg_calls < MaxCalls
    /\ \E f \in Paths : handle[f] # "absent"
    /\ handle' = [f \in Paths |-> "absent"]
    /\ UNCHANGED aggVars
    /\ UNCHANGED notAggVars

AggNext ==
    \/ GetDfInline
    \/ GetDfSubmit
    \/ \E i \in 1..MaxSources : HelperRun(i)
    \/ \E i \in 1..MaxSources : GetDfDrain(i)
    \/ GetDfConcat
    \/ GetDfAgain
    \/ GetDfClearCache


\* ---- claims about the aggregator ----
has_table(f) == normalize_internal_file_path(agg_args.search_term) \in DOMAIN Files[f].tables
sources_with_table == {f \in SeqToSet(agg_args.sources) : has_table(f)}
sources_without_table == {f \in SeqToSet(agg_args.sources) : ~has_table(f)}
frame_paths == {agg_frame.rows[j][NWB_PATH_COLUMN_NAME] : j \in 1..Len(agg_frame.rows)}
rows_from(f) == {j \in 1..Len(agg_frame.rows) : agg_frame.rows[j][NWB_PATH_COLUMN_NAME] = f}

materialized(i) == agg_future[i] # None /\ agg_future[i][1].kind = "ok"

RECURSIVE materialized_rows(_)
materialized_rows(i) ==
    IF i = 0 THEN 0
    ELSE materialized_rows(i - 1)
         + (IF materialized(i) THEN Len(agg_future[i][1].frame.rows) ELSE 0)

some_lack_the_table ==
    /\ agg_pc \in {"returned", "raised"}
    /\ Len(agg_args.sources) >= 2
    /\ sources_with_table # {}
    /\ sources_without_table # {}

\* C4: a get_df call over two or more sources, some lacking the requested
\* table and at least one having it, returns with raise_on_missing=False the
\* rows of exactly the sources that have the table, the others being dropped
\* with a warning, and raises KeyError with raise_on_missing=True.
C4_MissingTableIsolated ==
    some_lack_the_table =>
        IF agg_args.raise_on_missing
        THEN agg_pc = "raised" /\ agg_error = "KeyError"
        ELSE /\ agg_pc = "returned"
             /\ frame_paths = sources_with_table
             /\ \A f \in sources_with_table :
                   Cardinality(rows_from(f))
                       = Files[f].tables[normalize_internal_file_path(agg_args.search_term)].n
             /\ agg_warned = sources_without_table

\* C24: after any sequence of get_df calls given file paths, every accessor
\* held in the cache still has an open backend handle: no per-call helper
\* closes a cached accessor.
C24_CachedHandlesOpen ==
    (agg_pc \in {"returned", "raised"} /\ tasks_finished) =>
        \A f \in Paths : handle[f] \in {"absent", "open"}

\* C5: the frame get_df returns for several sources has the union of the
\* columns of the per-source frames, as many rows as they have together, and
\* each of their rows in it with null in the columns its source lacks.
C5_UnionWithNulls ==
    (agg_pc = "returned" /\ Len(agg_args.sources) >= 2) =>
        /\ agg_frame.columns
              = UNION {agg_future[i][1].frame.columns :
                          i \in {k \in DOMAIN agg_future : materialized(k)}}
        /\ Len(agg_frame.rows) = materialized_rows(Len(agg_future))
        /\ \A i \in DOMAIN agg_future :
              materialized(i) =>
                  \A j \in 1..Len(agg_future[i][1].frame.rows) :
                      \E r \in 1..Len(agg_frame.rows) :
                          \A c \in agg_frame.columns :
                              agg_frame.rows[r][c]
                                  = IF c \in agg_future[i][1].frame.columns
                                    THEN agg_future[i][1].frame.rows[j][c]
                                    ELSE Null

\* two sources with different columns were merged, one lacking a column
C5_Witness ==
    /\ agg_pc = "returned"
    /\ Len(agg_args.sources) >= 2
    /\ \E i \in DOMAIN agg_future : \E k \in DOMAIN agg_future :
          /\ materialized(i) /\ materialized(k)
          /\ agg_future[i][1].frame.columns # agg_future[k][1].frame.columns
    /\ \E r \in 1..Len(agg_frame.rows) : \E c \in agg_frame.columns :
          c \notin KeyColumns /\ agg_frame.rows[r][c] = Null

\* ===================================================== array column merge ====
MaxMergeCalls == 2

MergePaths == {"a_nwb", "b_zarr", "d_nwb"}
MergeColumns == {Col("spike_times"), Col("obs_intervals"), Col("waveform_mean")}

\* the order of the paths as strings
PathOrder == <<"a_nwb", "b_zarr", "c_nwb", "d_nwb">>
path_rank(f) == CHOOSE i \in 1..Len(PathOrder) : PathOrder[i] = f

\* rows i of a frame, in their order
select_rows(frame, keep) ==
    [columns |-> frame.columns,
     rows |-> [p \in 1..Cardinality(keep) |->
                  frame.rows[CHOOSE i \in keep : Cardinality({k \in keep : k < i}) = p - 1]]]

RECURSIVE ok_frames(_, _)
ok_frames(q, args) ==
    IF Len(q) = 0 THEN <<>>
    ELSE ApplyTo(get_table_data(q[1], args), LAMBDA out :
             (IF out.kind = "ok" THEN <<out.frame>> ELSE <<>>) \o ok_frames(Tail(q), args))

\* the frame get_df gives for the units tables of sources q, array columns left out
units_frame(q) ==
    concat(ok_frames(q, [search_term |-> "/units", exact_path |-> TRUE,
                         include_column_names |-> None, exclude_column_names |-> None,
                         exclude_array_columns |-> TRUE, table_row_indices |-> None]))

\* the frames merge_array_column is given: a units frame of some sources with
\* some of its rows filtered away
InputFrames ==
    UNION {{select_rows(units_frame(q), keep) :
               keep \in SUBSET (1..Len(units_frame(q).rows)) \ {{}}} :
           q \in {x \in SourceLists : SeqToSet(x) \subseteq MergePaths}}

row_key_less(r1, r2) ==
    \/ path_rank(r1[NWB_PATH_COLUMN_NAME]) < path_rank(r2[NWB_PATH_COLUMN_NAME])
    \/ /\ r1[NWB_PATH_COLUMN_NAME] = r2[NWB_PATH_COLUMN_NAME]
       /\ r1[TABLE_INDEX_COLUMN_NAME] < r2[TABLE_INDEX_COLUMN_NAME]

\* df.sort_values(by=[_nwb_path, _table_index]) / df.sort(...)
sort_values(frame) ==
    [columns |-> frame.columns,
     rows |-> [p \in 1..Len(frame.rows) |->
                  frame.rows[CHOOSE i \in 1..Len(frame.rows) :
                      Cardinality({k \in 1..Len(frame.rows) :
                          row_key_less(frame.rows[k], frame.rows[i])}) = p - 1]]]

frame_sources(frame) == {frame.rows[j][NWB_PATH_COLUMN_NAME] : j \in 1..Len(frame.rows)}

\* the rows of one source, as groupby gives them
session_rows(frame, f) ==
    select_rows(frame, {j \in 1..Len(frame.rows) : frame.rows[j][NWB_PATH_COLUMN_NAME] = f}).rows

\* get_table_path(session_df)
get_table_path(frame, f) == session_rows(frame, f)[1][TABLE_PATH_COLUMN_NAME]

\* get_table_column(session_df, TABLE_INDEX_COLUMN_NAME)
get_table_column(frame, f) ==
    [j \in 1..Len(session_rows(frame, f)) |-> session_rows(frame, f)[j][TABLE_INDEX_COLUMN_NAME]]

\* the frame _indexed_column_helper builds from the column data
column_frame(f, column_name, values, table_row_indices) ==
    [kind |-> "ok", warned |-> FALSE,
     frame |-> [columns |-> {column_name, TABLE_INDEX_COLUMN_NAME, NWB_PATH_COLUMN_NAME},
                rows |-> [j \in 1..Len(table_row_indices) |->
                             [c \in {column_name, TABLE_INDEX_COLUMN_NAME,
                                     NWB_PATH_COLUMN_NAME} |->
                                 IF c = NWB_PATH_COLUMN_NAME THEN f
                                 ELSE IF c = TABLE_INDEX_COLUMN_NAME THEN table_row_indices[j]
                                 ELSE values[j]]]]]

\* data_column_accessor[table_row_indices][:] of a dataset with two or more
\* dimensions: the rows of the dataset itself at those positions
rows_of_dataset(f, table_path, column_name, table_row_indices) ==
    IF IndexOf(column_name) \in SeqToSet(Files[f].tables[table_path].names)
    THEN FancyIndex(ColumnDataArray(f, table_path, column_name), table_row_indices)
    ELSE [j \in 1..Len(table_row_indices) |->
             CellValue(f, table_path, column_name, table_row_indices[j])]

\* _indexed_column_helper (tables.py 458-488) for the rows of source f
indexed_column_outcomes(f, h, table_path, column_name, table_row_indices) ==
    IF accessor_handle(h) = "closed" /\ hdmf_backend(f) = "hdf5"
    THEN {Failure(kind, FALSE) : kind \in ClosedHandleErrors}
    ELSE
    LET names == SeqToSet(Files[f].tables[table_path].names)
    IN  IF column_name \notin names
        THEN \* zarr raises KeyError(column_name), h5py KeyError(a message)
             IF hdmf_backend(f) = "zarr" THEN {Failure("ColumnError", FALSE)}
             ELSE {Failure("KeyError", FALSE)}
        ELSE IF ndim(column_name) >= 2
        THEN {column_frame(f, column_name,
                           rows_of_dataset(f, table_path, column_name, table_row_indices),
                           table_row_indices)}
        ELSE IF IndexOf(column_name) \notin names THEN {Failure("KeyError", FALSE)}
        ELSE ApplyTo(get_indexed_column_data(ColumnDataArray(f, table_path, column_name),
                                             ColumnIndexArray(f, table_path, column_name),
                                             Some(table_row_indices)),
                 LAMBDA got :
                     IF ~got.assert_ok THEN {Failure("AssertionError", FALSE)}
                     ELSE {column_frame(f, column_name,
                                        [j \in 1..Len(got.column_data) |->
                                            Arr(got.column_data[j])],
                                        table_row_indices)})

\* df.merge(pd.concat(column_data), how="left", on=[_table_index, _nwb_path])
left_join(frame, other, column_name) ==
    LET right == concat(other).rows
        same_key(l, r) == /\ l[TABLE_INDEX_COLUMN_NAME] = r[TABLE_INDEX_COLUMN_NAME]
                          /\ l[NWB_PATH_COLUMN_NAME] = r[NWB_PATH_COLUMN_NAME]
        joined(l) ==
            IF \E k \in 1..Len(right) : same_key(l, right[k])
            THEN right[CHOOSE k \in 1..Len(right) : same_key(l, right[k])][column_name]
            ELSE Null
    IN  [columns |-> frame.columns \cup {column_name},
         rows |-> [j \in 1..Len(frame.rows) |->
                      [c \in frame.columns \cup {column_name} |->
                          IF c = column_name THEN joined(frame.rows[j])
                          ELSE frame.rows[j][c]]]]

MergeStart ==
    /\ merge_df \in InputFrames
    /\ merge_args = None
    /\ merge_pc = "call"
    /\ merge_future = <<>>
    /\ merge_drained = {}
    /\ merge_column_data = <<>>
    /\ merge_warned = FALSE
    /\ merge_fetched = {}
    /\ merge_frame = EmptyFrame
    /\ merge_error = ""
    /\ merge_calls = 0

MergeIdle ==
    /\ merge_df = EmptyFrame
    /\ merge_args = None
    /\ merge_pc = "idle"
    /\ merge_future = <<>>
    /\ merge_drained = {}
    /\ merge_column_data = <<>>
    /\ merge_warned = FALSE
    /\ merge_fetched = {}
    /\ merge_frame = EmptyFrame
    /\ merge_error = ""
    /\ merge_calls = 0

\* merge_array_column up to the end of the submit loop: sort, group by path,
\* one _indexed_column_helper task per source
MergeSubmit(column_name, missing_ok) ==
    /\ merge_pc = "call"
    /\ column_name \notin merge_df.columns
    /\ merge_args' = [column_name |-> column_name, missing_ok |-> missing_ok]
    /\ merge_df' = sort_values(merge_df)
    /\ merge_future' = [f \in frame_sources(merge_df) |-> None]
    /\ merge_pc' = "drain"
    /\ merge_drained' = {}
    /\ merge_column_data' = <<>>
    /\ merge_warned' = FALSE
    /\ merge_fetched' = {}
    /\ merge_frame' = EmptyFrame
    /\ merge_error' = ""
    /\ merge_calls' = merge_calls + 1
    /\ UNCHANGED handle
    /\ UNCHANGED notMergeVars

\* a pool worker runs _indexed_column_helper for source f
IndexedColumnRun(f) ==
    /\ f \in DOMAIN merge_future
    /\ merge_future[f] = None
    /\ \E out \in indexed_column_outcomes(f, handle[f], get_table_path(merge_df, f),
                                          merge_args.column_name,
                                          get_table_column(merge_df, f)) :
          merge_future' = [merge_future EXCEPT ![f] = Some(out)]
    /\ merge_fetched' = merge_fetched \cup
          {<<f, r>> : r \in SeqToSet(get_table_column(merge_df, f))}
    /\ handle' = [handle EXCEPT ![f] = exit_handle(accessor_handle(@))]
    /\ UNCHANGED <<merge_df, merge_args, merge_pc, merge_drained, merge_column_data,
                   merge_warned, merge_frame, merge_error, merge_calls>>
    /\ UNCHANGED notMergeVars

\* one pass of `for future in as_completed(future_to_path)`
MergeDrain(f) ==
    /\ merge_pc = "drain"
    /\ f \in DOMAIN merge_future
    /\ f \notin merge_drained
    /\ merge_future[f] # None
    /\ merge_drained' = merge_drained \cup {f}
    /\ LET out == merge_future[f][1]
       IN  IF out.kind = "ok"
           THEN /\ merge_column_data' = Append(merge_column_data, out.frame)
                /\ UNCHANGED <<merge_pc, merge_warned, merge_error>>
           ELSE IF out.kind = "ColumnError" /\ merge_args.missing_ok
           THEN /\ merge_warned' = TRUE
                /\ UNCHANGED <<merge_pc, merge_column_data, merge_error>>
           ELSE /\ merge_pc' = "raised"
                /\ merge_error' = out.kind
                /\ UNCHANGED <<merge_column_data, merge_warned>>
    /\ UNCHANGED <<merge_df, merge_args, merge_future, merge_fetched, merge_frame,
                   merge_calls, handle>>
    /\ UNCHANGED notMergeVars

\* after the loop: df itself when no source gave data, else the left join
MergeJoin ==
    /\ merge_pc = "drain"
    /\ merge_drained = DOMAIN merge_future
    /\ merge_pc' = "returned"
    /\ merge_frame' = IF merge_column_data = <<>> THEN merge_df
                      ELSE left_join(merge_df, merge_column_data, merge_args.column_name)
    /\ UNCHANGED <<merge_df, merge_args, merge_future, merge_drained, merge_column_data,
                   merge_warned, merge_fetched, merge_error, merge_calls, handle>>
    /\ UNCHANGED notMergeVars

\* the caller merges another column onto the frame it now holds
MergeAgain ==
    /\ merge_pc \in {"returned", "raised"}
    /\ \A f \in DOMAIN merge_future : merge_future[f] # None
    /\ merge_calls < MaxMergeCalls
    /\ merge_pc' = "call"
    /\ merge_df' = IF merge_pc = "returned" THEN merge_frame ELSE merge_df
    /\ UNCHANGED <<merge_args, merge_future, merge_drained, merge_column_data, merge_warned,
                   merge_fetched, merge_frame, merge_error, merge_calls, handle>>
    /\ UNCHANGED notMergeVars

MergeNext ==
    \/ \E c \in MergeColumns : \E missing_ok \in BOOLEAN : MergeSubmit(c, missing_ok)
    \/ \E f \in MergePaths : IndexedColumnRun(f)
    \/ \E f \in MergePaths : MergeDrain(f)
    \/ MergeJoin
    \/ MergeAgain

\* ---- claims about the merge ----
merge_sources == frame_sources(merge_df)
merge_table(f) == Files[f].tables[get_table_path(merge_df, f)]
has_column(f) == merge_args.column_name \in SeqToSet(merge_table(f).names)
row_keys(frame) ==
    {<<frame.rows[j][NWB_PATH_COLUMN_NAME], frame.rows[j][TABLE_PATH_COLUMN_NAME],
       frame.rows[j][TABLE_INDEX_COLUMN_NAME]>> : j \in 1..Len(frame.rows)}

\* the array column c of table t in file f holds for row r
original_array(f, t, c, r) ==
    IF IndexOf(c) \in SeqToSet(Files[f].tables[t].names)
    THEN Arr(get_indexed_column_data(ColumnDataArray(f, t, c), ColumnIndexArray(f, t, c),
                                     Some(<<r>>)).column_data[1])
    ELSE CellValue(f, t, c, r)

merge_call_over == merge_pc \in {"returned", "raised"}

\* C9: merge_array_column(frame, c) on a frame with unique row keys, c being a
\* column of every source, returns the rows of the frame, each key once, each
\* with the original array of c at its row index in its source, and asks the
\* sources for the frame's rows only.
C9_OriginalArraysAttached ==
    (merge_call_over /\ \A f \in merge_sources : has_column(f)) =>
        /\ merge_pc = "returned"
        /\ Len(merge_frame.rows) = Len(merge_df.rows)
        /\ row_keys(merge_frame) = row_keys(merge_df)
        /\ merge_args.column_name \in merge_frame.columns
        /\ \A j \in 1..Len(merge_frame.rows) :
              merge_frame.rows[j][merge_args.column_name]
                  = original_array(merge_frame.rows[j][NWB_PATH_COLUMN_NAME],
                                   merge_frame.rows[j][TABLE_PATH_COLUMN_NAME],
                                   merge_args.column_name,
                                   merge_frame.rows[j][TABLE_INDEX_COLUMN_NAME])
        /\ merge_fetched = {<<k[1], k[3]>> : k \in row_keys(merge_df)}

\* the value get_df(f, t, exclude_array_columns=False) returns for column c
\* at row r; Null when the call gives no such cell
get_df_value(f, t, c, r) ==
    ApplyTo(get_table_data(f, [sources |-> <<f>>,
                               search_term |-> t,
                               exact_path |-> TRUE,
                               include_column_names |-> None,
                               exclude_column_names |-> None,
                               exclude_array_columns |-> FALSE,
                               table_row_indices |-> None,
                               raise_on_missing |-> TRUE,
                               suppress_errors |-> FALSE]),
        LAMBDA out :
            IF out.kind = "ok" /\ c \in out.frame.columns /\ r + 1 \in DOMAIN out.frame.rows
            THEN out.frame.rows[r + 1][c]
            ELSE Null)

\* C27: for every array-like column c and every row, the value
\* merge_array_column attaches for c equals the value
\* get_df(..., exclude_array_columns=False) returns for c at that row.
C27_SameValueBothPaths ==
    (merge_pc = "returned" /\ \A f \in merge_sources : has_column(f)) =>
        \A j \in 1..Len(merge_frame.rows) :
            merge_frame.rows[j][merge_args.column_name]
                = get_df_value(merge_frame.rows[j][NWB_PATH_COLUMN_NAME],
                               merge_frame.rows[j][TABLE_PATH_COLUMN_NAME],
                               merge_args.column_name,
                               merge_frame.rows[j][TABLE_INDEX_COLUMN_NAME])

\* C10: when some sources of the frame lack column c, merge_array_column with
\* missing_ok=True returns every row with a column c that is null exactly for
\* the rows of the sources lacking c, and with missing_ok=False raises
\* ColumnError.
C10_MissingColumn ==
    (merge_call_over /\ \E f \in merge_sources : ~has_column(f)) =>
        IF merge_args.missing_ok
        THEN /\ merge_pc = "returned"
             /\ Len(merge_frame.rows) = Len(merge_df.rows)
             /\ row_keys(merge_frame) = row_keys(merge_df)
             /\ merge_args.column_name \in merge_frame.columns
             /\ \A j \in 1..Len(merge_frame.rows) :
                   has_column(merge_frame.rows[j][NWB_PATH_COLUMN_NAME])
                       <=> merge_frame.rows[j][merge_args.column_name] # Null
        ELSE merge_pc = "raised" /\ merge_error = "ColumnError"

\* ================================================================ lazy scan ====
\* the orders in which n futures can complete
Orders(n) == {o \in [1..n -> 1..n] : \A i \in 1..n : \A j \in 1..n : o[i] = o[j] => i = j}

\* the as_completed loop of get_df over outcomes in completion order
RECURSIVE drain_results(_, _, _)
drain_results(outs, args, results) ==
    IF Len(outs) = 0 THEN [kind |-> "ok", results |-> results]
    ELSE ApplyTo(outs[1], LAMBDA out :
             IF out.kind = "ok"
             THEN drain_results(Tail(outs), args, Append(results, out.frame))
             ELSE IF out.kind = "KeyError"
             THEN IF args.raise_on_missing THEN [kind |-> out.kind, results |-> <<>>]
                  ELSE drain_results(Tail(outs), args, results)
             ELSE IF ~args.suppress_errors THEN [kind |-> out.kind, results |-> <<>>]
                  ELSE drain_results(Tail(outs), args, results))

\* get_df over FileAccessor objects, which _get_df_helper uses as they are,
\* the futures completing in the given order
get_df(files, args, order) ==
    IF Len(files) = 1 THEN get_table_data(files[1], args)
    ELSE ApplyTo(drain_results([k \in 1..Len(files) |->
                                   get_table_data(files[order[k]],
                                                  [args EXCEPT !.table_row_indices = None])],
                               args, <<>>),
             LAMBDA drained :
                 IF drained.kind # "ok" THEN Failure(drained.kind, FALSE)
                 ELSE IF drained.results = <<>> THEN Failure("ValueError", FALSE)
                 ELSE [kind |-> "ok", warned |-> FALSE, frame |-> concat(drained.results)])

\* the predicates polars pushes down: pl.col("id") == the id of a table's first
\* row, and pl.col("id") == an id no row has
Predicates == {"id_is_first", "id_is_absent"}
root_names(predicate) == {Col("id")}
predicate_holds(predicate, row) ==
    /\ predicate = "id_is_first"
    /\ Len(row[Col("id")]) = 4
    /\ row[Col("id")][4] = 0

\* df.filter(predicate)
filter_frame(frame, predicate) ==
    select_rows(frame, {j \in 1..Len(frame.rows) : predicate_holds(predicate, frame.rows[j])})

\* df[:n]
head_frame(frame, n) == select_rows(frame, {j \in 1..Len(frame.rows) : j <= n})

ScanArgs ==
    [files : SourceLists,
     table_path : SearchTerms,
     with_columns : {None, Some({Col("id")} \cup KeyColumns)},
     predicate : {None} \cup {Some(x) : x \in Predicates},
     n_rows : {None, Some(0), Some(1)},
     batch_size : {None, Some(1)}]

\* batch_size inside the generator: 1_000 when polars gives no hint
DefaultBatchSize == 1000
batch_size_of(args) == IF args.batch_size = None THEN DefaultBatchSize ELSE args.batch_size[1]

\* the arguments of the first get_df call of source_generator
scan_get_df_args(args) ==
    [search_term |-> args.table_path,
     exact_path |-> FALSE,
     include_column_names |->
         IF args.predicate = None THEN None ELSE Some(root_names(args.predicate[1])),
     exclude_column_names |-> None,
     exclude_array_columns |-> TRUE,
     table_row_indices |-> None,
     raise_on_missing |-> FALSE,
     suppress_errors |-> FALSE]

\* an exception leaving the generator: StopIteration becomes RuntimeError
generator_error(kind) == IF kind = "StopIteration" THEN "RuntimeError" ELSE kind

ScanStart ==
    /\ scan_args \in ScanArgs
    /\ scan_pc = "start"
    /\ scan_filtered_df = EmptyFrame
    /\ scan_n_rows = 0
    /\ scan_i = 0
    /\ scan_yielded = <<>>
    /\ scan_error = ""

ScanIdle ==
    /\ scan_args = None
    /\ scan_pc = "idle"
    /\ scan_filtered_df = EmptyFrame
    /\ scan_n_rows = 0
    /\ scan_i = 0
    /\ scan_yielded = <<>>
    /\ scan_error = ""

\* source_generator up to its first yield, or to the head of the while loop
ScanFetch ==
    /\ scan_pc = "start"
    /\ \E order \in Orders(Len(scan_args.files)) :
          LET out == get_df(scan_args.files, scan_get_df_args(scan_args), order)
          IN  IF out.kind # "ok"
              THEN /\ scan_pc' = "raised"
                   /\ scan_error' = generator_error(out.kind)
                   /\ UNCHANGED <<scan_filtered_df, scan_n_rows, scan_yielded>>
              ELSE IF scan_args.predicate = None
              THEN /\ scan_pc' = "done"
                   /\ scan_yielded' =
                         <<IF /\ scan_args.n_rows # None
                              /\ scan_args.n_rows[1] < Len(out.frame.rows)
                           THEN head_frame(out.frame, scan_args.n_rows[1])
                           ELSE out.frame>>
                   /\ UNCHANGED <<scan_filtered_df, scan_n_rows, scan_error>>
              ELSE /\ scan_pc' = "batches"
                   /\ scan_filtered_df' = filter_frame(out.frame, scan_args.predicate[1])
                   /\ scan_n_rows' =
                         IF scan_args.n_rows = None \/ scan_args.n_rows[1] = 0
                         THEN Len(filter_frame(out.frame, scan_args.predicate[1]).rows)
                         ELSE scan_args.n_rows[1]
                   /\ UNCHANGED <<scan_yielded, scan_error>>
    /\ scan_i' = 0
    /\ UNCHANGED scan_args
    /\ UNCHANGED notScanVars

\* one pass of `while i < n_rows`: the arguments of the second get_df call are
\* evaluated first, and lazynwb.tables has no _get_path_to_row_indices
ScanBatch ==
    /\ scan_pc = "batches"
    /\ IF scan_i < scan_n_rows
       THEN scan_pc' = "raised" /\ scan_error' = "AttributeError"
       ELSE scan_pc' = "done" /\ UNCHANGED scan_error
    /\ UNCHANGED <<scan_args, scan_filtered_df, scan_n_rows, scan_i, scan_yielded>>
    /\ UNCHANGED notScanVars

ScanNext ==
    \/ ScanFetch
    \/ ScanBatch

\* ---- claims about the scan ----
\* frame[cols]
project_frame(frame, cols) ==
    [columns |-> cols,
     rows |-> [j \in 1..Len(frame.rows) |-> [c \in cols |-> frame.rows[j][c]]]]

frame_row_set(frame) == {frame.rows[j] : j \in 1..Len(frame.rows)}

\* the full table by get_df, then filtered and projected in memory
scan_reference ==
    LET out == get_df(scan_args.files,
                      [scan_get_df_args(scan_args) EXCEPT !.include_column_names = None],
                      [k \in 1..Len(scan_args.files) |-> k])
        wanted == (IF scan_args.predicate = None THEN {}
                   ELSE root_names(scan_args.predicate[1]))
                  \cup (IF scan_args.with_columns = None THEN {}
                        ELSE scan_args.with_columns[1])
    IN  IF out.kind # "ok" THEN out
        ELSE IF ~(wanted \subseteq out.frame.columns) THEN Failure("ColumnNotFoundError", FALSE)
        ELSE [kind |-> "ok", warned |-> FALSE,
              frame |->
                  project_frame(
                      IF scan_args.predicate = None THEN out.frame
                      ELSE filter_frame(out.frame, scan_args.predicate[1]),
                      IF scan_args.with_columns = None THEN out.frame.columns
                      ELSE scan_args.with_columns[1])]

yielded_rows == UNION {frame_row_set(scan_yielded[k]) : k \in 1..Len(scan_yielded)}

\* C3: for a predicate, a projection and a list of sources, the rows the scan
\* generator yields over all batches are, by key and by value, the rows of the
\* full get_df table filtered by the predicate and projected to the columns.
C3_ScanEqualsFilteredGetDf ==
    (/\ scan_pc \in {"done", "raised"}
     /\ scan_args.n_rows = None
     /\ scan_reference.kind = "ok") =>
        /\ scan_pc = "done"
        /\ yielded_rows = frame_row_set(scan_reference.frame)

\* C14: every frame the scan generator yields has at most batch_size rows,
\* 1000 when polars gives no batch size, with and without a predicate.
C14_BatchBound ==
    \A k \in 1..Len(scan_yielded) :
        Len(scan_yielded[k].rows) <= batch_size_of(scan_args)

RECURSIVE rows_yielded(_)
rows_yielded(k) == IF k = 0 THEN 0 ELSE rows_yielded(k - 1) + Len(scan_yielded[k].rows)

\* the rows of the table that satisfy the predicate (all rows without one)
rows_expected ==
    IF scan_args.n_rows # None /\ scan_args.n_rows[1] < Len(scan_reference.frame.rows)
    THEN scan_args.n_rows[1]
    ELSE Len(scan_reference.frame.rows)

\* C15: a scan over a table get_df can read ends without an exception, and
\* the rows it has yielded over all batches number min(rows satisfying the
\* predicate, n_rows), or min(rows of the table, n_rows) without a predicate,
\* for every n_rows >= 0 and for no limit.
C15_RowsYielded ==
    (scan_pc \in {"done", "raised"} /\ scan_reference.kind = "ok") =>
        /\ scan_pc = "done"
        /\ rows_yielded(Len(scan_yielded)) = rows_expected

\* ================================================ row and column selection ====
\* get_df called with a row subset and with include / exclude lists

\* (include_column_names, exclude_column_names) as the caller gives them
ColumnChoices ==
    {<<None, None>>,
     <<Some({Col("id")}), None>>,
     <<Some({Col("id"), Col("spike_times")}), None>>,
     <<Some({Col("id")}), Some({Col("id")})>>,
     <<None, Some({Col("id"), Col("region"), Col("start_time")})>>}

RowChoices == {None, Some(<<0>>), Some(<<1>>)}

\* every requested row exists in every table of the sources
rows_in_range(sources, table_row_indices) ==
    \/ table_row_indices = None
    \/ \A f \in SeqToSet(sources) : \A t \in DOMAIN Files[f].tables :
          \A k \in 1..Len(table_row_indices[1]) :
              table_row_indices[1][k] < Files[f].tables[t].n

SelectArgs ==
    {a \in [sources : SourceLists,
            search_term : {"/units"},
            exact_path : BOOLEAN,
            include_column_names : {c[1] : c \in ColumnChoices},
            exclude_column_names : {c[2] : c \in ColumnChoices},
            exclude_array_columns : BOOLEAN,
            table_row_indices : RowChoices,
            raise_on_missing : BOOLEAN,
            suppress_errors : BOOLEAN] :
        /\ <<a.include_column_names, a.exclude_column_names>> \in ColumnChoices
        /\ rows_in_range(a.sources, a.table_row_indices)}

SelectStart ==
    /\ agg_args \in SelectArgs
    /\ agg_pc = "call"
    /\ agg_future = <<>>
    /\ agg_drained = {}
    /\ agg_results = <<>>
    /\ agg_warned = {}
    /\ agg_frame = EmptyFrame
    /\ agg_error = ""
    /\ agg_calls = 0

\* ---- claims about the selection ----
returned_sources ==
    IF Len(agg_args.sources) = 1 THEN {agg_args.sources[1]}
    ELSE {agg_args.sources[i] : i \in {k \in DOMAIN agg_future : materialized(k)}}

source_table(f) ==
    normalize_internal_file_path(
        resolve_table(Files[f], agg_args.search_term, agg_args.exact_path).path)

asked_rows(f) ==
    IF agg_args.table_row_indices = None
    THEN 0..(Files[f].tables[source_table(f)].n - 1)
    ELSE SeqToSet(agg_args.table_row_indices[1])

frame_keys ==
    {<<agg_frame.rows[j][NWB_PATH_COLUMN_NAME], agg_frame.rows[j][TABLE_PATH_COLUMN_NAME],
       agg_frame.rows[j][TABLE_INDEX_COLUMN_NAME]>> : j \in 1..Len(agg_frame.rows)}

expected_keys ==
    UNION {{<<f, source_table(f), r>> : r \in asked_rows(f)} : f \in returned_sources}

\* C11: the row keys of the frame get_df returns are exactly the triples
\* (source, table, r) for the materialized sources s and the requested rows
\* r (all rows 0..n-1 when no subset is given), _table_index being the row's
\* ordinal in the source table, and no key occurs twice.
C11_RowKeys ==
    agg_pc = "returned" =>
        /\ frame_keys = expected_keys
        /\ Cardinality(frame_keys) = Len(agg_frame.rows)

task_kind(i) == agg_future[i][1].kind

\* source i has no table the search term resolves to
lacks_table(i) ==
    ~resolve_table(Files[agg_args.sources[i]], agg_args.search_term, agg_args.exact_path).found
    \/ source_table(agg_args.sources[i]) \notin DOMAIN Files[agg_args.sources[i]].tables

is_missing_table_error(i) == task_kind(i) = "KeyError" /\ lacks_table(i)
is_other_error(i) == task_kind(i) # "ok" /\ ~is_missing_table_error(i)

names_overlap ==
    /\ agg_args.include_column_names # None
    /\ agg_args.exclude_column_names # None
    /\ agg_args.include_column_names[1] \cap agg_args.exclude_column_names[1] # {}

every_source_has_the_table == \A i \in 1..Len(agg_args.sources) : ~lacks_table(i)

\* a call for a table none of the model's files holds under that path
MissingArgs ==
    [sources : SourceLists,
     search_term : {"/intervals/epochs"},
     exact_path : BOOLEAN,
     include_column_names : {None},
     exclude_column_names : {None},
     exclude_array_columns : BOOLEAN,
     table_row_indices : {None},
     raise_on_missing : BOOLEAN,
     suppress_errors : BOOLEAN]

MissingStart ==
    /\ agg_args \in MissingArgs
    /\ agg_pc = "call"
    /\ agg_future = <<>>
    /\ agg_drained = {}
    /\ agg_results = <<>>
    /\ agg_warned = {}
    /\ agg_frame = EmptyFrame
    /\ agg_error = ""
    /\ agg_calls = 0

every_source_lacks_the_table == \A i \in 1..Len(agg_args.sources) : lacks_table(i)

\* C25: with raise_on_missing=False a source lacking the table never makes
\* get_df raise: when the only source lacks it, or every source lacks it, the
\* call returns a frame with no rows.
C25_MissingNeverRaises ==
    (/\ agg_pc \in {"returned", "raised"}
     /\ tasks_finished
     /\ ~agg_args.raise_on_missing
     /\ every_source_lacks_the_table) =>
        /\ agg_pc = "returned"
        /\ agg_frame.rows = <<>>

\* C28: within one get_df call at most one warning is logged for the
\* missing-table condition, however many sources hit it.
C28_OneWarning == agg_pc # "idle" => Cardinality(agg_warned) <= 1

\* C16: a get_df call whose include and exclude lists share a column name,
\* over one or several sources that have the table, raises ValueError and
\* returns no frame, no task having produced column data.
C16_OverlapRejected ==
    (/\ agg_pc \in {"returned", "raised"}
     /\ names_overlap
     /\ every_source_has_the_table) =>
        /\ agg_pc = "raised"
        /\ agg_error = "ValueError"
        /\ agg_frame = EmptyFrame
        /\ \A i \in DOMAIN agg_future :
              agg_future[i] # None => agg_future[i][1].frame = EmptyFrame

\* ================================================ one table of one file ====
\* a schema of every dataset of the table
table_column_names(file, table_path, include_array_columns) ==
    IF normalize_internal_file_path(table_path) \notin DOMAIN file.tables
    THEN [kind |-> "KeyError", columns |-> {}]
    ELSE [kind |-> "ok",
          columns |-> SeqToSet(file.tables[normalize_internal_file_path(table_path)].names)]

\* _get_table_schema for one open file (tables.py 629-656), as [kind, columns]:
\* every column but the _index siblings with array columns, the flat columns
\* without; for the table path 'units' waveform_sd is popped without a default
get_table_schema(file, table_path, include_array_columns) ==
    IF normalize_internal_file_path(table_path) \notin DOMAIN file.tables
    THEN [kind |-> "KeyError", columns |-> {}]
    ELSE LET schema == SeqToSet(file.tables[normalize_internal_file_path(table_path)].names)
             indexed == get_indexed_column_names(schema)
         IN  IF include_array_columns
             THEN [kind |-> "ok",
                   columns |-> {k \in schema : ~(k \in indexed /\ endswith_index(k))}]
             ELSE IF table_path = "units"
             THEN IF Col("waveform_sd") \in schema \ indexed
                  THEN [kind |-> "ok",
                        columns |-> (schema \ indexed)
                                        \ {Col("waveform_sd"), Col("waveform_mean")}]
                  ELSE [kind |-> "KeyError", columns |-> {}]
             ELSE [kind |-> "ok", columns |-> schema \ indexed]

\* the table _get_table_data goes on with (tables.py 252-279), as [kind, path]:
\* the resolved search term, KeyError when nothing matches or the path is absent
table_match(file, search_term, exact_path) ==
    ApplyTo(resolve_table(file, search_term, exact_path), LAMBDA res :
        IF res.found /\ normalize_internal_file_path(res.path) \in DOMAIN file.tables
        THEN [kind |-> "ok", path |-> normalize_internal_file_path(res.path)]
        ELSE [kind |-> "KeyError", path |-> ""])

TableFiles == {"a_nwb", "b_zarr", "c_nwb", "e_nwb"}
TableTerms == {"/units", "units", "trial", "/intervals/trials"}

\* include and exclude lists that name an _index sibling too
TableColumnChoices ==
    ColumnChoices \cup
        {<<Some({Col("spike_times"), IndexOf(Col("spike_times"))}), None>>,
         <<Some({IndexOf(Col("spike_times"))}), None>>,
         <<None, Some({Col("spike_times")})>>,
         <<None, Some({IndexOf(Col("spike_times"))})>>}

TableArgs ==
    {a \in [file : TableFiles,
            search_term : TableTerms,
            exact_path : BOOLEAN,
            include_column_names : {c[1] : c \in TableColumnChoices},
            exclude_column_names : {c[2] : c \in TableColumnChoices},
            exclude_array_columns : BOOLEAN,
            table_row_indices : RowChoices,
            include_array_columns : BOOLEAN] :
        /\ <<a.include_column_names, a.exclude_column_names>> \in TableColumnChoices
        /\ rows_in_range(<<a.file>>, a.table_row_indices)}

TableStart ==
    /\ tbl_args \in TableArgs
    /\ tbl_pc = "call"
    /\ tbl_match = None
    /\ tbl_out = None
    /\ tbl_schema = None

TableIdle ==
    /\ tbl_args = None
    /\ tbl_pc = "idle"
    /\ tbl_match = None
    /\ tbl_out = None
    /\ tbl_schema = None

\* _get_table_data up to the column accessors of the table
TableResolve ==
    /\ tbl_pc = "call"
    /\ tbl_pc' = "resolved"
    /\ tbl_match' = Some(table_match(Files[tbl_args.file], tbl_args.search_term,
                                     tbl_args.exact_path))
    /\ UNCHANGED <<tbl_args, tbl_out, tbl_schema>>
    /\ UNCHANGED notTblVars

\* _get_table_data(file, ...) on the open accessor
TableData ==
    /\ tbl_pc = "call"
    /\ tbl_pc' = "data"
    /\ tbl_out' = Some(get_table_data(tbl_args.file, tbl_args))
    /\ UNCHANGED <<tbl_args, tbl_match, tbl_schema>>
    /\ UNCHANGED notTblVars

\* _get_table_schema(file, table_path, include_array_columns=...)
TableSchema ==
    /\ tbl_pc = "call"
    /\ tbl_pc' = "schema"
    /\ tbl_schema' = Some(get_table_schema(Files[tbl_args.file], tbl_args.search_term,
                                           tbl_args.include_array_columns))
    /\ UNCHANGED <<tbl_args, tbl_match, tbl_out>>
    /\ UNCHANGED notTblVars

TableNext ==
    \/ TableResolve
    \/ TableData
    \/ TableSchema

\* ---- claims about one table ----
tbl_file == Files[tbl_args.file]
is_present == normalize_internal_file_path(tbl_args.search_term) \in DOMAIN tbl_file.tables
similarity(c) == ratio(Chars(c), Chars(tbl_args.search_term))
reaches_floor(c) == similarity(c)[1] * 10 >= CutoffTenths * similarity(c)[2]
at_least_as_similar(c, d) ==
    similarity(c)[1] * similarity(d)[2] >= similarity(d)[1] * similarity(c)[2]
best_candidates ==
    {c \in get_internal_file_paths(tbl_file) :
        /\ reaches_floor(c)
        /\ \A d \in get_internal_file_paths(tbl_file) : at_least_as_similar(c, d)}

\* C12: for a search term that is not a present internal path, resolution
\* with exact_path=True fails with the missing-table KeyError, and with
\* exact_path=False gives a candidate path of highest similarity to the term
\* when that similarity reaches 0.3 and fails with KeyError otherwise; for the
\* candidates /intervals/trials and /intervals/epochs and the term 'trial',
\* exact mode fails and fuzzy mode gives /intervals/trials.
C12_Resolution ==
    (tbl_pc = "resolved" /\ ~is_present) =>
        /\ IF tbl_args.exact_path \/ best_candidates = {}
           THEN tbl_match[1].kind = "KeyError"
           ELSE tbl_match[1].kind = "ok" /\ tbl_match[1].path \in best_candidates
        /\ (tbl_args.file = "e_nwb" /\ tbl_args.search_term = "trial") =>
               IF tbl_args.exact_path THEN tbl_match[1].kind = "KeyError"
               ELSE tbl_match[1] = [kind |-> "ok", path |-> "/intervals/trials"]

\* 'trial' was resolved by similarity among two candidates
C12_Witness ==
    /\ tbl_pc = "resolved"
    /\ tbl_args.file = "e_nwb"
    /\ tbl_args.search_term = "trial"
    /\ ~tbl_args.exact_path
    /\ tbl_match[1].path = "/intervals/trials"

tbl_overlap ==
    /\ tbl_args.include_column_names # None
    /\ tbl_args.exclude_column_names # None
    /\ tbl_args.include_column_names[1] \cap tbl_args.exclude_column_names[1] # {}

\* the table the call reads, once the search term has resolved
tbl_resolved ==
    table_match(tbl_file, tbl_args.search_term, tbl_args.exact_path).kind = "ok"
tbl_table ==
    tbl_file.tables[table_match(tbl_file, tbl_args.search_term, tbl_args.exact_path).path]
tbl_names == SeqToSet(tbl_table.names)

\* the columns the filter loop leaves that the call would read values of
left_to_materialize ==
    LET keys == filter_columns(tbl_names, tbl_table.names, tbl_args.include_column_names,
                               tbl_args.exclude_column_names, tbl_args.exclude_array_columns)
    IN  {c \in keys :
            IF c \in get_indexed_column_names(keys)
            THEN ~tbl_args.exclude_array_columns /\ ~endswith_index(c)
            ELSE ndim(c) < 2 \/ ~tbl_args.exclude_array_columns}

\* C17: when the include and exclude options leave no column of the table to
\* materialize, the call fails with the ValueError of a schema conflict, as
\* for overlapping lists, and returns no frame.
C17_NothingLeftRejected ==
    (tbl_pc = "data" /\ tbl_resolved /\ ~tbl_overlap /\ left_to_materialize = {}) =>
        /\ tbl_out[1].kind = "ValueError"
        /\ tbl_out[1].frame = EmptyFrame

is_index_sibling(c) == endswith_index(c) /\ removesuffix_index(c) \in tbl_names

C19_IncludeList ==
    (/\ tbl_pc = "data"
     /\ tbl_resolved
     /\ tbl_args.include_column_names # None
     /\ ~tbl_overlap
     /\ tbl_args.include_column_names[1] \cap tbl_names # {}) =>
        /\ tbl_out[1].kind = "ok"
        /\ tbl_out[1].frame.columns
              = (tbl_args.include_column_names[1] \cap tbl_names) \cup KeyColumns

\* ===================================================== file structure ====
\* An internal path is the sequence of its segments: /intervals/trials is
\* <<"intervals", "trials">> and the root group "/" is <<>>.  A container is
\* the set of its tables (groups with a colnames attribute, each holding the
\* column dataset id) and of its other datasets; the groups above them are
\* implied.
Table(path) == [path |-> path, table |-> TRUE]
Dataset(path) == [path |-> path, table |-> FALSE]

Entries ==
    {Table(<<"units">>),
     Table(<<"intervals", "trials">>),
     Table(<<"intervals", "epochs">>),
     Dataset(<<"processing", "behavior", "running_speed", "data">>),
     Dataset(<<"general", "institution">>),
     Dataset(<<"specifications", "core">>),
     Dataset(<<"session_description">>)}

Containers == SUBSET Entries

\* every dataset of the container, columns of tables included
datasets_of(container) ==
    {e.path : e \in {x \in container : ~x.table}}
        \cup {Append(e.path, "id") : e \in {x \in container : x.table}}

is_prefix(p, q) == Len(p) <= Len(q) /\ SubSeq(q, 1, Len(p)) = p

\* group.keys(): the members of the group at path
group_keys(container, path) ==
    {SubSeq(d, 1, Len(path) + 1) :
        d \in {x \in datasets_of(container) : is_prefix(path, x) /\ Len(x) > Len(path)}}

\* hasattr(group, "keys"): groups have keys, datasets have none
has_keys(container, path) == path \notin datasets_of(container)

\* "colnames" in group.attrs
has_colnames(container, path) == Table(path) \in container

\* group.name.count("/"): the name of the root group is "/"
name_count_slashes(path) == IF path = <<>> THEN 1 ELSE Len(path)

\* group.name.startswith("/general")
name_startswith_general(path) == path # <<>> /\ path[1] = "general"

\* _traverse_internal_paths(group, ...): the keys of the dict it returns
RECURSIVE traverse_internal_paths(_, _, _)
traverse_internal_paths(container, path, flags) ==
    IF flags.exclude_specifications /\ path = <<"specifications">> THEN {}
    ELSE IF \/ ~has_keys(container, path)
            \/ (flags.exclude_table_columns /\ has_colnames(container, path))
    THEN IF /\ flags.exclude_metadata
            /\ (name_count_slashes(path) = 1 \/ name_startswith_general(path))
         THEN {}
         ELSE {path}
    ELSE UNION {traverse_internal_paths(container, subpath, flags) :
                   subpath \in group_keys(container, path)}

StructArgs ==
    [container : Containers,
     exclude_specifications : BOOLEAN,
     exclude_table_columns : BOOLEAN,
     exclude_metadata : BOOLEAN]

StructStart ==
    /\ struct_args \in StructArgs
    /\ struct_pc = "call"
    /\ struct_out = None

StructIdle ==
    /\ struct_args = None
    /\ struct_pc = "idle"
    /\ struct_out = None

\* get_nwb_file_structure(nwb_path, ...): its first statement reads
\* lazynwb.file_io._get_accessor, a name file_io.py does not define
GetNwbFileStructure ==
    /\ struct_pc = "call"
    /\ struct_pc' = "raised"
    /\ struct_out' = Some("AttributeError")
    /\ UNCHANGED struct_args
    /\ UNCHANGED notStructVars

\* _traverse_internal_paths(file._accessor, ...) called on the root group
TraverseInternalPaths ==
    /\ struct_pc = "call"
    /\ struct_pc' = "returned"
    /\ struct_out' = Some(traverse_internal_paths(struct_args.container, <<>>, struct_args))
    /\ UNCHANGED struct_args
    /\ UNCHANGED notStructVars

StructNext ==
    \/ GetNwbFileStructure
    \/ TraverseInternalPaths

\* ---- claims about the file structure ----
table_paths == {e.path : e \in {x \in struct_args.container : x.table}}

\* C21: for every combination of the three exclude flags the call returns a
\* structure that has every table path of the file as a key, the tables
\* directly under the root included.
C21_TablesAreKeys ==
    struct_pc \in {"returned", "raised"} =>
        /\ struct_pc = "returned"
        /\ table_paths \subseteq struct_out[1]

\* ===================================================== opening around a call ====
\* FileAccessWrapper(source, open_func).access() and functions decorated with
\* auto_file_open(open_func, use_thread_pool).  An argument is a path or a
\* handle the caller opened; handle k is the object behind argument k.
MaxParams == 3

ParamLists == UNION {[1..n -> {"path", "handle"}] : n \in 1..MaxParams}

WrapArgs ==
    {a \in [entry : {"access", "auto_file_open"},
            params : ParamLists,
            open_func : BOOLEAN,        \* an open_func was given
            use_thread_pool : BOOLEAN,
            has_close : BOOLEAN,        \* what open_func returns has a callable close
            func_raises : BOOLEAN] :
        a.entry = "access" => (Len(a.params) = 1 /\ ~a.use_thread_pool)}

\* the handle of a path the wrapper opened; closes_on_exit: its close is
\* in the finally clause of an access() the exit stack holds
Opened(closes_on_exit) == Some([by |-> "wrapper", open |-> TRUE, closes_on_exit |-> closes_on_exit])
PassedIn == Some([by |-> "caller", open |-> TRUE, closes_on_exit |-> FALSE])

\* len(file_paths_to_open)
file_paths_to_open(a) == Cardinality({k \in DOMAIN a.params : a.params[k] = "path"})

\* auto_file_open: actual_open_func = open_func if open_func is not None else open
actual_open_func(a) == a.entry = "auto_file_open" \/ a.open_func

in_thread_pool(a) ==
    a.entry = "auto_file_open" /\ a.use_thread_pool /\ file_paths_to_open(a) > 1

\* FileAccessWrapper(source, open_func).access() up to its yield
access(source, open_func) ==
    IF source = "path" /\ open_func THEN Opened(TRUE)
    ELSE IF source = "path" THEN None
    ELSE PassedIn

WrapStart ==
    /\ wrap_args \in WrapArgs
    /\ wrap_pc = "call"
    /\ wrap_handles = <<>>
    /\ wrap_passed = <<>>

WrapIdle ==
    /\ wrap_args = None
    /\ wrap_pc = "idle"
    /\ wrap_handles = <<>>
    /\ wrap_passed = <<>>

\* what the function receives for argument k: the handle, or the path itself
passed_value(handles, k) == IF handles[k] = None THEN "path" ELSE k

\* access().__enter__, and the sequential branch of auto_file_open
OpenSequential ==
    /\ wrap_pc = "call"
    /\ ~in_thread_pool(wrap_args)
    /\ wrap_handles' = [k \in DOMAIN wrap_args.params |->
                           access(wrap_args.params[k], actual_open_func(wrap_args))]
    /\ wrap_passed' = [k \in DOMAIN wrap_args.params |-> passed_value(wrap_handles', k)]
    /\ wrap_pc' = "opened"
    /\ UNCHANGED wrap_args
    /\ UNCHANGED notWrapVars

\* the thread-pool branch of auto_file_open: _open_file in the pool, then
\* FileAccessWrapper(accessor) around the handle that was opened
OpenInThreadPool ==
    /\ wrap_pc = "call"
    /\ in_thread_pool(wrap_args)
    /\ wrap_handles' = [k \in DOMAIN wrap_args.params |->
                           IF wrap_args.params[k] = "path"
                           THEN Opened(access("handle", FALSE)[1].closes_on_exit)
                           ELSE PassedIn]
    /\ wrap_passed' = [k \in DOMAIN wrap_args.params |-> passed_value(wrap_handles', k)]
    /\ wrap_pc' = "opened"
    /\ UNCHANGED wrap_args
    /\ UNCHANGED notWrapVars

\* the body of the with block / func(**new_kwargs)
FuncRun ==
    /\ wrap_pc = "opened"
    /\ wrap_pc' = IF wrap_args.func_raises THEN "raised" ELSE "returned"
    /\ UNCHANGED <<wrap_args, wrap_handles, wrap_passed>>
    /\ UNCHANGED notWrapVars

\* the finally clause of access() / ExitStack.__exit__
close_on_exit(h, has_close) ==
    IF h # None /\ h[1].closes_on_exit /\ has_close
    THEN Some([h[1] EXCEPT !.open = FALSE])
    ELSE h

StackExit ==
    /\ wrap_pc \in {"returned", "raised"}
    /\ wrap_handles' = [k \in DOMAIN wrap_handles |->
                           close_on_exit(wrap_handles[k], wrap_args.has_close)]
    /\ wrap_pc' = IF wrap_pc = "raised" THEN "closed_raised" ELSE "closed_returned"
    /\ UNCHANGED <<wrap_args, wrap_passed>>
    /\ UNCHANGED notWrapVars

WrapNext ==
    \/ OpenSequential
    \/ OpenInThreadPool
    \/ FuncRun
    \/ StackExit

\* ---- claims about opening around a call ----
wrap_over == wrap_pc \in {"closed_returned", "closed_raised"}

\* handles that can be closed: those the caller passed in, and those the
\* opener returned when its result has a close method
closable_handles ==
    {k \in DOMAIN wrap_handles :
        /\ wrap_handles[k] # None
        /\ (wrap_handles[k][1].by = "wrapper" => wrap_args.has_close)}

\* C22: at the end of access() or of a decorated call, on return and on
\* exception, sequential or thread pool, a handle is closed iff the wrapper
\* opened it from a path; a handle passed in open reaches the function as the
\* same object and is still open afterwards.
C22_ClosedIffOpened ==
    wrap_over =>
        \A k \in closable_handles :
            /\ (~wrap_handles[k][1].open) <=> (wrap_handles[k][1].by = "wrapper")
            /\ wrap_handles[k][1].by = "caller" => wrap_passed[k] = k

\* ===================================================== choice of executor ====
\* get_df from the single-path shortcut to the drain loop: which executor
\* the per-source _get_df_helper tasks are submitted to.
MaxExecPaths == 5

ExecArgs ==
    [n_paths : 1..MaxExecPaths,
     exclude_array_columns : BOOLEAN,
     use_process_pool : BOOLEAN]

ExecStart ==
    /\ exec_args \in ExecArgs
    /\ exec_pc = "call"
    /\ exec_executor = ""
    /\ exec_submitted = <<>>
    /\ exec_drained = 0
    /\ exec_warned = FALSE

ExecIdle ==
    /\ exec_args = None
    /\ exec_pc = "idle"
    /\ exec_executor = ""
    /\ exec_submitted = <<>>
    /\ exec_drained = 0
    /\ exec_warned = FALSE

\* if exclude_array_columns and use_process_pool: warn, use_process_pool = False
process_pool_disabled(a) == a.exclude_array_columns /\ a.use_process_pool

\* executor = get_processpool_executor() if use_process_pool else get_threadpool_executor()
executor_of(a) ==
    IF a.use_process_pool /\ ~process_pool_disabled(a) THEN "process" ELSE "thread"

\* len(paths) == 1: the helper runs in the caller, no executor is taken
ExecInline ==
    /\ exec_pc = "call"
    /\ exec_args.n_paths = 1
    /\ exec_pc' = "returned"
    /\ UNCHANGED <<exec_args, exec_executor, exec_submitted, exec_drained, exec_warned>>
    /\ UNCHANGED notExecVars

ExecChoose ==
    /\ exec_pc = "call"
    /\ exec_args.n_paths > 1
    /\ exec_warned' = process_pool_disabled(exec_args)
    /\ exec_executor' = executor_of(exec_args)
    /\ exec_pc' = "submit"
    /\ UNCHANGED <<exec_args, exec_submitted, exec_drained>>
    /\ UNCHANGED notExecVars

\* for path in paths: executor.submit(_get_df_helper, ...)
ExecSubmit ==
    /\ exec_pc = "submit"
    /\ exec_submitted' = Append(exec_submitted, exec_executor)
    /\ exec_pc' = IF Len(exec_submitted') = exec_args.n_paths THEN "drain" ELSE "submit"
    /\ UNCHANGED <<exec_args, exec_executor, exec_drained, exec_warned>>
    /\ UNCHANGED notExecVars

\* for future in futures: results.append(future.result()); then the concat
ExecDrain ==
    /\ exec_pc = "drain"
    /\ exec_drained' = exec_drained + 1
    /\ exec_pc' = IF exec_drained' = exec_args.n_paths THEN "returned" ELSE "drain"
    /\ UNCHANGED <<exec_args, exec_executor, exec_submitted, exec_warned>>
    /\ UNCHANGED notExecVars

ExecNext ==
    \/ ExecInline
    \/ ExecChoose
    \/ ExecSubmit
    \/ ExecDrain

\* ---- claims about the choice of executor ----
in_process_pool == {k \in DOMAIN exec_submitted : exec_submitted[k] = "process"}

\* C26: with exclude_array_columns=False get_df submits no per-source task to
\* the process pool, even with use_process_pool=True: the thread pool is
\* used instead.
C26_NoProcessPoolForArrays ==
    (exec_pc # "idle" /\ ~exec_args.exclude_array_columns) =>
        /\ in_process_pool = {}
        /\ exec_executor # "process"

\* ===================================================== probing the formats ====
\* _open_file(path) step by step.  content is what is stored at the path:
\* an HDF5 file, a Zarr hierarchy, or neither.
ProbeArgs ==
    [name_has_zarr : BOOLEAN,           \* "zarr" in key
     content : {"hdf5", "zarr", "neither"},
     protocol : {"", "s3"},             \* u.protocol
     use_remfile : BOOLEAN,             \* config.use_remfile
     remfile_ok : BOOLEAN]              \* remfile.File(url) does not raise

\* is_zarr = "zarr" in key
is_zarr(a) == a.name_has_zarr

\* _open_hdf5(path, use_remfile): h5py.File on the local path, on the remfile
\* object, or on the fsspec file when remfile is off or failed
open_hdf5(a) ==
    [ok |-> a.content = "hdf5",
     warned |-> a.protocol # "" /\ a.use_remfile /\ ~a.remfile_ok]

\* zarr.open(store=u, mode="r")
zarr_open(a) == a.content = "zarr"

ProbeStart ==
    /\ probe_args \in ProbeArgs
    /\ probe_pc = "call"
    /\ probe_out = ""
    /\ probe_tried = {}
    /\ probe_warned = FALSE

ProbeIdle ==
    /\ probe_args = None
    /\ probe_pc = "idle"
    /\ probe_out = ""
    /\ probe_tried = {}
    /\ probe_warned = FALSE

\* if not is_zarr: with suppress(Exception): return _open_hdf5(...)
OpenFileHdf5 ==
    /\ probe_pc = "call"
    /\ ~is_zarr(probe_args)
    /\ probe_tried' = probe_tried \cup {"hdf5"}
    /\ probe_warned' = open_hdf5(probe_args).warned
    /\ IF open_hdf5(probe_args).ok
       THEN probe_pc' = "returned" /\ probe_out' = "hdf5"
       ELSE probe_pc' = "zarr" /\ probe_out' = probe_out
    /\ UNCHANGED probe_args
    /\ UNCHANGED notProbeVars

\* is_zarr: the HDF5 attempt is left out
OpenFileSkipHdf5 ==
    /\ probe_pc = "call"
    /\ is_zarr(probe_args)
    /\ probe_pc' = "zarr"
    /\ UNCHANGED <<probe_args, probe_out, probe_tried, probe_warned>>
    /\ UNCHANGED notProbeVars

\* with suppress(Exception): return zarr.open(...); raise ValueError
OpenFileZarr ==
    /\ probe_pc = "zarr"
    /\ probe_tried' = probe_tried \cup {"zarr"}
    /\ IF zarr_open(probe_args)
       THEN probe_pc' = "returned" /\ probe_out' = "zarr"
       ELSE probe_pc' = "raised" /\ probe_out' = "ValueError"
    /\ UNCHANGED <<probe_args, probe_warned>>
    /\ UNCHANGED notProbeVars

ProbeNext ==
    \/ OpenFileHdf5
    \/ OpenFileSkipHdf5
    \/ OpenFileZarr

\* ---- claims about probing ----
probe_over == probe_pc \in {"returned", "raised"}

\* C29: open() fails with the open-failure ValueError only when neither
\* backend can open the path; for every path that one format can open,
\* whatever its name contains, it returns an accessor of that format.
C29_FailsOnlyIfNeither ==
    probe_over =>
        IF probe_args.content = "neither"
        THEN probe_pc = "raised" /\ probe_out = "ValueError"
        ELSE probe_pc = "returned" /\ probe_out = probe_args.content

\* ===================================================== time series ====
\* TimeSeries.timestamps and TimeSeries.starting_time are properties that
\* read each other; ts_stack holds the getters that have been entered and
\* have not returned.
RecursionLimit == 6     \* sys.getrecursionlimit(), scaled down

TsArgs ==
    {a \in [read : {"timestamps", "starting_time"},
            path_in_file : BOOLEAN,                       \* self.path in self.file
            has_timestamps : BOOLEAN,                     \* <path>/timestamps exists
            starting_time : {"absent", "no_rate", "rate"},   \* <path>/starting_time and its rate attribute
            has_data : BOOLEAN] :                         \* <path>/data exists
        ~a.path_in_file =>
            (~a.has_timestamps /\ a.starting_time = "absent" /\ ~a.has_data)}

\* TimeSeries.rate: the rate attribute of <path>/starting_time, or None
rate(a) == IF a.starting_time = "rate" THEN Some("rate") ELSE None

\* (np.arange(len(self.data)) / rate) + starting_time
computed_timestamps(starting_time, r) ==
    [arange_len |-> "data", rate |-> r, starting_time |-> starting_time]

Frame(prop, at) == [prop |-> prop, at |-> at]

TsStart ==
    /\ ts_args \in TsArgs
    /\ ts_pc = "call"
    /\ ts_stack = <<>>
    /\ ts_ret = None
    /\ ts_out = None

TsIdle ==
    /\ ts_args = None
    /\ ts_pc = "idle"
    /\ ts_stack = <<>>
    /\ ts_ret = None
    /\ ts_out = None

\* the caller reads series.timestamps or series.starting_time
PropertyRead ==
    /\ ts_pc = "call"
    /\ ts_pc' = "running"
    /\ ts_stack' = <<Frame(ts_args.read, "enter")>>
    /\ UNCHANGED <<ts_args, ts_ret, ts_out>>
    /\ UNCHANGED notTsVars

\* an exception no getter catches ends the read
ts_raise(exception) ==
    /\ ts_pc' = "raised"
    /\ ts_out' = Some(exception)
    /\ ts_stack' = <<>>
    /\ ts_ret' = None

\* a getter returns: to the getter that read it, or to the caller
ts_return(value) ==
    IF Len(ts_stack) = 1
    THEN /\ ts_pc' = "returned"
         /\ ts_out' = Some(value)
         /\ ts_stack' = <<>>
         /\ ts_ret' = None
    ELSE /\ ts_stack' = SubSeq(ts_stack, 1, Len(ts_stack) - 1)
         /\ ts_ret' = Some(value)
         /\ UNCHANGED <<ts_pc, ts_out>>

\* the innermost getter reads another property: one more frame
ts_enter(prop) ==
    IF Len(ts_stack) >= RecursionLimit
    THEN ts_raise("RecursionError")
    ELSE /\ ts_stack' = [ts_stack EXCEPT ![Len(ts_stack)].at = "wait"]
                            \o <<Frame(prop, "enter")>>
         /\ UNCHANGED <<ts_pc, ts_ret, ts_out>>

\* timestamps, from its try to `starting_time = self.starting_time`
TimestampsEnter ==
    /\ ts_pc = "running"
    /\ ts_stack[Len(ts_stack)] = Frame("timestamps", "enter")
    /\ IF ts_args.has_timestamps THEN ts_return("timestamps")
       ELSE IF ~ts_args.path_in_file THEN ts_raise("InternalPathError")
       ELSE ts_enter("starting_time")
    /\ UNCHANGED ts_args
    /\ UNCHANGED notTsVars

\* starting_time: return self.timestamps[0], up to the read of self.timestamps
StartingTimeEnter ==
    /\ ts_pc = "running"
    /\ ts_stack[Len(ts_stack)] = Frame("starting_time", "enter")
    /\ ts_enter("timestamps")
    /\ UNCHANGED ts_args
    /\ UNCHANGED notTsVars

\* the getter that was waiting goes on with the value it read:
\* starting_time returns timestamps[0]; timestamps tests rate and
\* starting_time and returns the computed array
PropertyResume ==
    /\ ts_pc = "running"
    /\ ts_stack # <<>>
    /\ ts_stack[Len(ts_stack)].at = "wait"
    /\ ts_ret # None
    /\ IF ts_stack[Len(ts_stack)].prop = "starting_time"
       THEN ts_return(<<ts_ret[1], 0>>)
       ELSE IF rate(ts_args) = None
       THEN ts_raise("AssertionError")
       ELSE IF ~ts_args.has_data
       THEN ts_raise("AttributeError")
       ELSE ts_return(computed_timestamps(ts_ret[1], rate(ts_args)[1]))
    /\ UNCHANGED ts_args
    /\ UNCHANGED notTsVars

TsNext ==
    \/ PropertyRead
    \/ TimestampsEnter
    \/ StartingTimeEnter
    \/ PropertyResume

\* ---- claims about the time series ----
timestamps_frames == {k \in DOMAIN ts_stack : ts_stack[k].prop = "timestamps"}

rate_only ==
    /\ ts_pc # "idle"
    /\ ts_args.read = "timestamps"
    /\ ~ts_args.has_timestamps
    /\ ts_args.starting_time = "rate"
    /\ ts_args.has_data

\* C30: for a TimeSeries with no timestamps dataset but a starting_time
\* dataset carrying a rate, reading timestamps ends by returning
\* starting_time + arange(len(data)) / rate, and the getter never re-enters
\* itself through starting_time.
C30_TimestampsFromRate ==
    rate_only =>
        /\ Cardinality(timestamps_frames) <= 1
        /\ ts_pc # "raised"
        /\ ts_pc = "returned" =>
              ts_out = Some(computed_timestamps("starting_time", "rate"))

\* ===================================================== specifications ====
CodecInit == CodecStart /\ CacheIdle /\ PoolIdle /\ NoHandles /\ AggIdle /\ MergeIdle /\ ScanIdle /\ TableIdle /\ StructIdle /\ WrapIdle /\ ExecIdle /\ ProbeIdle /\ TsIdle
CodecSpec == CodecInit /\ [][CodecNext]_vars

CacheInit == CodecIdle /\ CacheStart /\ PoolIdle /\ NoHandles /\ AggIdle /\ MergeIdle /\ ScanIdle /\ TableIdle /\ StructIdle /\ WrapIdle /\ ExecIdle /\ ProbeIdle /\ TsIdle
\* one caller
CacheSeqSpec == CacheInit /\ [][SequentialNext]_vars
\* several callers
CacheSpec == CacheInit /\ [][ConcurrentNext]_vars

PoolInit == CodecIdle /\ CacheIdle /\ PoolStart /\ NoHandles /\ AggIdle /\ MergeIdle /\ ScanIdle /\ TableIdle /\ StructIdle /\ WrapIdle /\ ExecIdle /\ ProbeIdle /\ TsIdle
PoolSpec == PoolInit /\ [][PoolNext]_vars

AggInit == CodecIdle /\ CacheIdle /\ PoolIdle /\ NoHandles /\ AggStart /\ MergeIdle /\ ScanIdle /\ TableIdle /\ StructIdle /\ WrapIdle /\ ExecIdle /\ ProbeIdle /\ TsIdle
AggSpec == AggInit /\ [][AggNext]_vars

MergeInit == CodecIdle /\ CacheIdle /\ PoolIdle /\ NoHandles /\ AggIdle /\ MergeStart /\ ScanIdle /\ TableIdle /\ StructIdle /\ WrapIdle /\ ExecIdle /\ ProbeIdle /\ TsIdle
MergeSpec == MergeInit /\ [][MergeNext]_vars

ScanInit == CodecIdle /\ CacheIdle /\ PoolIdle /\ NoHandles /\ AggIdle /\ MergeIdle /\ ScanStart /\ TableIdle /\ StructIdle /\ WrapIdle /\ ExecIdle /\ ProbeIdle /\ TsIdle
ScanSpec == ScanInit /\ [][ScanNext]_vars

SelectInit == CodecIdle /\ CacheIdle /\ PoolIdle /\ NoHandles /\ SelectStart /\ MergeIdle /\ ScanIdle /\ TableIdle /\ StructIdle /\ WrapIdle /\ ExecIdle /\ ProbeIdle /\ TsIdle
SelectSpec == SelectInit /\ [][AggNext]_vars

TableInit == CodecIdle /\ CacheIdle /\ PoolIdle /\ NoHandles /\ AggIdle /\ MergeIdle /\ ScanIdle /\ TableStart /\ StructIdle /\ WrapIdle /\ ExecIdle /\ ProbeIdle /\ TsIdle
TableSpec == TableInit /\ [][TableNext]_vars

StructInit == CodecIdle /\ CacheIdle /\ PoolIdle /\ NoHandles /\ AggIdle /\ MergeIdle /\ ScanIdle /\ TableIdle /\ StructStart /\ WrapIdle /\ ExecIdle /\ ProbeIdle /\ TsIdle
StructSpec == StructInit /\ [][StructNext]_vars

WrapInit == CodecIdle /\ CacheIdle /\ PoolIdle /\ NoHandles /\ AggIdle /\ MergeIdle /\ ScanIdle /\ TableIdle /\ StructIdle /\ WrapStart /\ ExecIdle /\ ProbeIdle /\ TsIdle
WrapSpec == WrapInit /\ [][WrapNext]_vars

ExecInit == CodecIdle /\ CacheIdle /\ PoolIdle /\ NoHandles /\ AggIdle /\ MergeIdle /\ ScanIdle /\ TableIdle /\ StructIdle /\ WrapIdle /\ ExecStart /\ ProbeIdle /\ TsIdle
ExecSpec == ExecInit /\ [][ExecNext]_vars

MissingInit == CodecIdle /\ CacheIdle /\ PoolIdle /\ NoHandles /\ MissingStart /\ MergeIdle /\ ScanIdle /\ TableIdle /\ StructIdle /\ WrapIdle /\ ExecIdle /\ ProbeIdle /\ TsIdle
MissingSpec == MissingInit /\ [][AggNext]_vars

ProbeInit == CodecIdle /\ CacheIdle /\ PoolIdle /\ NoHandles /\ AggIdle /\ MergeIdle /\ ScanIdle /\ TableIdle /\ StructIdle /\ WrapIdle /\ ExecIdle /\ ProbeStart /\ TsIdle
ProbeSpec == ProbeInit /\ [][ProbeNext]_vars

TsInit == CodecIdle /\ CacheIdle /\ PoolIdle /\ NoHandles /\ AggIdle /\ MergeIdle /\ ScanIdle /\ TableIdle /\ StructIdle /\ WrapIdle /\ ExecIdle /\ ProbeIdle /\ TsStart
TsSpec == TsInit /\ [][TsNext]_vars
====
